---------------------------- MODULE Spec2Model ----------------------------
(***************************************************************************)
(* Model of the MASI sentiment scoring engine                              *)
(* (src/sentiment_calculator.py, configured by src/config.py).             *)
(*                                                                         *)
(* Python values are modelled as records [t, n, d]:                        *)
(*   t = "num"  : the number n/d, kept in lowest terms with d > 0.         *)
(*                Python floats are modelled as exact rationals, so the    *)
(*                model does not see binary rounding.                      *)
(*   t = "str"  : a non-numeric string; n orders the strings.              *)
(*   t = "none" : Python's None.                                           *)
(*   t = "exc"  : the evaluation raised an exception.                      *)
(* A market-data record is [mapping, items]: items is the dict (a function *)
(* whose DOMAIN is the set of keys present); mapping = FALSE is a value    *)
(* that has no .get at all.                                                *)
(***************************************************************************)
EXTENDS Integers, Sequences, FiniteSets, TLC

VARIABLES
    market_data,   \* the argument of the current calculate_sentiment call
    analysis_date, \* its analysis_date argument (0 stands for None)
    now,           \* the clock read by datetime.now()
    result,        \* the value calculate_sentiment returned
    outcome,       \* "pending", then "returned", or "raised" if an exception escaped
    faults,        \* the except branches taken during the call
    score,         \* the argument of the current _get_sentiment_label call
    label,         \* the label it returned ("" before)
    prev_score,    \* argument of the preceding _get_sentiment_label call
    prev_label,    \* and its label
    weights,       \* self.weights of the calculator
    thresholds,    \* self.thresholds of the calculator
    pc,            \* per concurrent call: the statement it is about to run
    args,          \* per concurrent call: its market_data argument
    locals,        \* per frame: the local variables of calculate_sentiment
    returned,      \* per concurrent call: the value it returned
    session,       \* BloombergClient.session
    connected,     \* BloombergClient.connected
    lock,          \* BloombergClient.lock: "free" or "held"
    connect_pc,    \* the statement the connect call is about to run
    retries,       \* the retries argument of the connect call
    attempt,       \* the loop variable of the connect call
    connect_result,\* what the connect call returned ("none" while it runs)
    attempts_made, \* attempts the connect call has begun
    calls,         \* connect calls made so far
    historical_file, \* the historical CSV file of the requested date
    historical_data, \* what get_historical_data returned
    fig            \* the figure create_gauge_chart returned

\* The variables of the sentiment calculator.
calc_vars == <<market_data, analysis_date, now, result, outcome, faults,
               score, label, prev_score, prev_label,
               weights, thresholds, pc, args, locals, returned>>

\* The variables of the Bloomberg client.
client_vars == <<session, connected, lock, connect_pc, retries, attempt,
                 connect_result, attempts_made, calls>>

\* The variables of the data handler.
handler_vars == <<historical_file, historical_data>>

\* The variables of the charts.
chart_vars == <<fig>>

\* The variables outside the sentiment calculator.
io_vars == <<client_vars, handler_vars, chart_vars>>

vars == <<calc_vars, io_vars>>

---------------------------------------------------------------------------
(* Exact rational arithmetic on [t |-> "num", n, d].                       *)

RECURSIVE GCD(_, _)
GCD(a, b) == IF b = 0 THEN a ELSE GCD(b, a % b)

Abs(i) == IF i < 0 THEN -i ELSE i

\* The number n/d (d # 0) in lowest terms with a positive denominator.
Num(n, d) ==
    LET g == GCD(Abs(n), Abs(d))
        s == IF d < 0 THEN -1 ELSE 1
    IN  [t |-> "num", n |-> (s * n) \div g, d |-> (s * d) \div g]

PyInt(i) == [t |-> "num", n |-> i, d |-> 1]
Str(k) == [t |-> "str", n |-> k, d |-> 1]
None   == [t |-> "none", n |-> 0, d |-> 1]
Exc    == [t |-> "exc", n |-> 0, d |-> 1]

IsNum(x) == x.t = "num"
IsStr(x) == x.t = "str"
IsExc(x) == x.t = "exc"

RAdd(x, y) == Num(x.n * y.d + y.n * x.d, x.d * y.d)
RSub(x, y) == Num(x.n * y.d - y.n * x.d, x.d * y.d)
RMul(x, y) == Num(x.n * y.n, x.d * y.d)
RDiv(x, y) == Num(x.n * y.d, x.d * y.n)
RLt(x, y)  == x.n * y.d < y.n * x.d
RLe(x, y)  == x.n * y.d <= y.n * x.d
RGt(x, y)  == RLt(y, x)
RGe(x, y)  == RLe(y, x)
REq(x, y)  == x.n * y.d = y.n * x.d

---------------------------------------------------------------------------
(* Python operators on values; a TypeError or ZeroDivisionError is Exc.    *)

\* x + y: numbers add, two strings concatenate (the model keeps only that
\* the result is a string), anything else raises TypeError.
PyAdd(x, y) ==
    IF IsNum(x) /\ IsNum(y) THEN RAdd(x, y)
    ELSE IF IsStr(x) /\ IsStr(y) THEN Str(x.n)
    ELSE Exc

PySub(x, y) == IF IsNum(x) /\ IsNum(y) THEN RSub(x, y) ELSE Exc

\* x * y: numbers multiply; a string times an int is a (repeated) string.
PyMul(x, y) ==
    IF IsNum(x) /\ IsNum(y) THEN RMul(x, y)
    ELSE IF IsStr(x) /\ IsNum(y) /\ y.d = 1 THEN Str(x.n)
    ELSE IF IsNum(x) /\ x.d = 1 /\ IsStr(y) THEN Str(y.n)
    ELSE Exc

\* x / y: true division; ZeroDivisionError and TypeError are Exc.
PyDiv(x, y) ==
    IF IsNum(x) /\ IsNum(y) /\ y.n # 0 THEN RDiv(x, y) ELSE Exc

PyAbs(x) == IF IsNum(x) THEN Num(Abs(x.n), x.d) ELSE Exc

\* Whether x < y, x > y, x >= y are defined (no TypeError): two numbers or
\* two strings.
Ordered(x, y) == (IsNum(x) /\ IsNum(y)) \/ (IsStr(x) /\ IsStr(y))

\* The orderings, for Ordered operands.
Lt(x, y) == IF IsNum(x) THEN RLt(x, y) ELSE x.n < y.n
Gt(x, y) == Lt(y, x)
Ge(x, y) == ~Lt(x, y)

\* x == y never raises: numbers compare by value, other values by identity
\* of type and content, and a number never equals a string or None.
PyEq(x, y) ==
    IF IsNum(x) /\ IsNum(y) THEN REq(x, y)
    ELSE x.t = y.t /\ x.n = y.n

\* min(a, x) for two arguments: x if x < a else a.
PyMin(a, x) ==
    IF ~Ordered(x, a) THEN Exc ELSE IF Lt(x, a) THEN x ELSE a

\* max(a, x) for two arguments: x if x > a else a.
PyMax(a, x) ==
    IF ~Ordered(x, a) THEN Exc ELSE IF Gt(x, a) THEN x ELSE a

\* Mutant of Clamp: the score is returned unclamped.
ClampNone(lo, hi, x) == x

\* max(lo, min(hi, x)) as written throughout the calculator.
Clamp(lo, hi, x) ==
    LET m == PyMin(hi, x) IN IF IsExc(m) THEN Exc ELSE PyMax(lo, m)

\* float(x): a number converts to itself; None and a non-numeric string
\* raise TypeError / ValueError.
PyFloat(x) == IF IsNum(x) THEN x ELSE Exc

\* Mutant of Get: market_data[key], a KeyError when the key is absent.
GetStrict(md, key, default) ==
    IF ~md.mapping THEN Exc
    ELSE IF key \in DOMAIN md.items THEN md.items[key]
    ELSE Exc

\* market_data.get(key, default): AttributeError when market_data is not a
\* mapping.
Get(md, key, default) ==
    IF ~md.mapping THEN Exc
    ELSE IF key \in DOMAIN md.items THEN md.items[key]
    ELSE default

---------------------------------------------------------------------------
(* Configuration (src/config.py).                                          *)

\* Mutant of SENTIMENT_WEIGHTS: breadth and momentum weights exchanged.
SENTIMENT_WEIGHTS_Swapped ==
    [breadth |-> Num(25, 100), momentum |-> Num(30, 100),
     trend |-> Num(25, 100), volume |-> Num(20, 100)]

SENTIMENT_WEIGHTS ==
    [breadth |-> Num(30, 100), momentum |-> Num(25, 100),
     trend |-> Num(25, 100), volume |-> Num(20, 100)]

\* Mutant of THRESHOLDS: bearish and very_bearish at the same score.
THRESHOLDS_Tied ==
    [very_bullish |-> PyInt(60), bullish |-> PyInt(30), neutral |-> PyInt(-30),
     bearish |-> PyInt(-60), very_bearish |-> PyInt(-60)]

THRESHOLDS ==
    [very_bullish |-> PyInt(60), bullish |-> PyInt(30), neutral |-> PyInt(-30),
     bearish |-> PyInt(-60), very_bearish |-> PyInt(-100)]

\* Mutant of SENTIMENT_LABELS: the bullish and bearish labels exchanged.
SENTIMENT_LABELS_Swapped ==
    [very_bullish |-> "Very Bullish", bullish |-> "Bearish",
     neutral |-> "Neutral", bearish |-> "Bullish",
     very_bearish |-> "Very Bearish"]

SENTIMENT_LABELS ==
    [very_bullish |-> "Very Bullish", bullish |-> "Bullish",
     neutral |-> "Neutral", bearish |-> "Bearish",
     very_bearish |-> "Very Bearish"]

\* Mutant of BREADTH_THRESHOLDS: the positive bucket starts at 0.50.
BREADTH_THRESHOLDS_Shifted ==
    [extremely_positive |-> Num(75, 100), very_positive |-> Num(60, 100),
     positive |-> Num(50, 100), neutral |-> Num(45, 100),
     negative |-> Num(40, 100), very_negative |-> Num(25, 100),
     extremely_negative |-> PyInt(0)]

BREADTH_THRESHOLDS ==
    [extremely_positive |-> Num(75, 100), very_positive |-> Num(60, 100),
     positive |-> Num(55, 100), neutral |-> Num(45, 100),
     negative |-> Num(40, 100), very_negative |-> Num(25, 100),
     extremely_negative |-> PyInt(0)]

---------------------------------------------------------------------------
(* try: ... except Exception: return fallback.  The result records whether *)
(* the except branch ran (fault) and whether an exception leaves the       *)
(* function (escaped; never, since the handler catches every Exception).   *)

\* Mutant of Try: no handler, the exception leaves the function.
TryUnguarded(v, fallback) ==
    [val |-> fallback, fault |-> FALSE, escaped |-> IsExc(v)]

Try(v, fallback) ==
    IF IsExc(v)
    THEN [val |-> fallback, fault |-> TRUE, escaped |-> FALSE]
    ELSE [val |-> v, fault |-> FALSE, escaped |-> FALSE]

(* _calculate_breadth_sentiment: the score of advance_pct under the        *)
(* thresholds B, clamped.                                                  *)
BreadthScore(advance_pct, B) ==
    IF IsExc(advance_pct) THEN Exc
    ELSE Clamp(PyInt(-100), PyInt(100),
            IF Ge(advance_pct, B.extremely_positive)
            THEN PyAdd(PyInt(80), PyMul(PySub(advance_pct, B.extremely_positive), PyInt(200)))
            ELSE IF Ge(advance_pct, B.very_positive)
            THEN PyAdd(PyInt(60), PyMul(PySub(advance_pct, B.very_positive), PyInt(400)))
            ELSE IF Ge(advance_pct, B.positive)
            THEN PyAdd(PyInt(30), PyMul(PySub(advance_pct, B.positive), PyInt(200)))
            ELSE IF Ge(advance_pct, B.neutral)
            THEN PyMul(PySub(advance_pct, B.neutral), PyInt(150))
            ELSE IF Ge(advance_pct, B.negative)
            THEN PyAdd(PyInt(-30), PyMul(PySub(advance_pct, B.negative), PyInt(200)))
            ELSE IF Ge(advance_pct, B.very_negative)
            THEN PyAdd(PyInt(-60), PyMul(PySub(advance_pct, B.very_negative), PyInt(400)))
            ELSE PyAdd(PyInt(-100), PyMul(advance_pct, PyInt(500))))

(* _calculate_breadth_sentiment: from total on: the zero-total return,     *)
(* ad_ratio, advance_pct and the score.                                    *)
BreadthTotal(advances, declines, total) ==
    IF IsExc(total) THEN Exc
    ELSE IF PyEq(total, PyInt(0)) THEN PyInt(0)
    ELSE IF IsExc(PyDiv(advances, PyAdd(declines, PyInt(1)))) THEN Exc
    ELSE BreadthScore(PyDiv(advances, total), BREADTH_THRESHOLDS)

(* _calculate_breadth_sentiment: total = advances + declines + unchanged.  *)
BreadthCounts(advances, declines, unchanged) ==
    BreadthTotal(advances, declines, PyAdd(PyAdd(advances, declines), unchanged))

(* _calculate_breadth_sentiment: the body of the try block.                *)
BreadthBody(md) ==
    BreadthCounts(Get(md, "advances", PyInt(0)), Get(md, "declines", PyInt(0)),
                  Get(md, "unchanged", PyInt(0)))

_calculate_breadth_sentiment(md) == Try(BreadthBody(md), PyInt(0))

\* Mutant of PriceScore: the sensitive regime includes |change_pct| = 0.5.
PriceScoreInclusive(change_pct) ==
    IF ~Gt(PyAbs(change_pct), Num(5, 10))
    THEN PyMul(change_pct, PyInt(200))
    ELSE Clamp(PyInt(-100), PyInt(100), PyMul(change_pct, PyInt(20)))

(* _calculate_momentum_sentiment: the price-change component, for a       *)
(* numeric change_pct.                                                     *)
PriceScore(change_pct) ==
    IF Lt(PyAbs(change_pct), Num(5, 10))
    THEN PyMul(change_pct, PyInt(200))
    ELSE Clamp(PyInt(-100), PyInt(100), PyMul(change_pct, PyInt(20)))

\* Mutant of ExtremesScore: the outer steps at 90 and -90.
ExtremesScoreWide(highs_ratio) ==
    IF Gt(highs_ratio, Num(7, 10)) THEN PyInt(90)
    ELSE IF Gt(highs_ratio, Num(5, 10)) THEN PyInt(30)
    ELSE IF Gt(highs_ratio, Num(3, 10)) THEN PyInt(-30)
    ELSE PyInt(-90)

(* _calculate_momentum_sentiment: the new highs/lows component, for a      *)
(* numeric highs_ratio.                                                    *)
ExtremesScore(highs_ratio) ==
    IF Gt(highs_ratio, Num(7, 10)) THEN PyInt(80)
    ELSE IF Gt(highs_ratio, Num(5, 10)) THEN PyInt(30)
    ELSE IF Gt(highs_ratio, Num(3, 10)) THEN PyInt(-30)
    ELSE PyInt(-80)

(* _calculate_momentum_sentiment: the combination of the two components.   *)
MomentumCombine(change_pct, highs_ratio) ==
    IF IsExc(highs_ratio) THEN Exc
    ELSE Clamp(PyInt(-100), PyInt(100),
               PyAdd(PyMul(PriceScore(change_pct), Num(6, 10)),
                     PyMul(ExtremesScore(highs_ratio), Num(4, 10))))

(* _calculate_momentum_sentiment: from total_extremes on.                  *)
MomentumExtremes(change_pct, new_highs, total_extremes) ==
    IF IsExc(PyAbs(change_pct)) THEN Exc
    ELSE IF IsExc(total_extremes) THEN Exc
    ELSE MomentumCombine(change_pct, PyDiv(new_highs, total_extremes))

\* Mutant of MomentumInputs: total_extremes without the added 1.
MomentumInputsNoOffset(change_pct, new_highs, new_lows) ==
    MomentumExtremes(change_pct, new_highs, PyAdd(new_highs, new_lows))

(* _calculate_momentum_sentiment: total_extremes = new_highs + new_lows + 1 *)
MomentumInputs(change_pct, new_highs, new_lows) ==
    MomentumExtremes(change_pct, new_highs,
                     PyAdd(PyAdd(new_highs, new_lows), PyInt(1)))

(* _calculate_momentum_sentiment: the body of the try block.               *)
MomentumBody(md) ==
    MomentumInputs(Get(md, "change_pct", PyInt(0)), Get(md, "new_highs", PyInt(0)),
                   Get(md, "new_lows", PyInt(0)))

_calculate_momentum_sentiment(md) == Try(MomentumBody(md), PyInt(0))

\* Mutant of MaScore: normalised by the three averages, not by the number
\* of averages exceeded.
MaScoreGraded(close, ma_20, ma_50, ma_200) ==
    LET hit(ma)  == IF Gt(close, ma) THEN 1 ELSE 0
        ma_count == hit(ma_20) + hit(ma_50) + hit(ma_200)
        ma_score == 30 * hit(ma_20) + 30 * hit(ma_50) + 30 * hit(ma_200)
    IN  IF ma_count > 0
        THEN PyMul(PyDiv(PyInt(ma_score), PyInt(90)), PyInt(100))
        ELSE PyInt(ma_score)

\* Mutant of MaScore: an average equal to close is counted too.
MaScoreInclusive(close, ma_20, ma_50, ma_200) ==
    LET hit(ma)  == IF Ge(close, ma) THEN 1 ELSE 0
        ma_count == hit(ma_20) + hit(ma_50) + hit(ma_200)
        ma_score == 30 * hit(ma_20) + 30 * hit(ma_50) + 30 * hit(ma_200)
    IN  IF ma_count > 0
        THEN PyMul(PyDiv(PyInt(ma_score), PyInt(ma_count * 30)), PyInt(100))
        ELSE PyInt(ma_score)

(* _calculate_trend_sentiment: the moving-average component (ma_score      *)
(* after normalisation), for a close Ordered with the three averages.      *)
MaScore(close, ma_20, ma_50, ma_200) ==
    LET hit(ma)  == IF Gt(close, ma) THEN 1 ELSE 0
        ma_count == hit(ma_20) + hit(ma_50) + hit(ma_200)
        ma_score == 30 * hit(ma_20) + 30 * hit(ma_50) + 30 * hit(ma_200)
    IN  IF ma_count > 0
        THEN PyMul(PyDiv(PyInt(ma_score), PyInt(ma_count * 30)), PyInt(100))
        ELSE PyInt(ma_score)

\* Mutant of RsiScore: rsi = 70 and rsi = 30 take the outer branches.
RsiScoreInclusive(rsi) ==
    IF Ge(rsi, PyInt(70))
    THEN PyAdd(PyInt(-30), PyMul(PySub(PyInt(100), rsi), PyInt(3)))
    ELSE IF ~Gt(rsi, PyInt(30))
    THEN PyAdd(PyInt(30), PyMul(rsi, Num(27, 10)))
    ELSE PyMul(PySub(rsi, PyInt(50)), Num(12, 10))

(* _calculate_trend_sentiment: the RSI component, for a numeric rsi.       *)
RsiScore(rsi) ==
    IF Gt(rsi, PyInt(70))
    THEN PyAdd(PyInt(-30), PyMul(PySub(PyInt(100), rsi), PyInt(3)))
    ELSE IF Lt(rsi, PyInt(30))
    THEN PyAdd(PyInt(30), PyMul(rsi, Num(27, 10)))
    ELSE PyMul(PySub(rsi, PyInt(50)), Num(12, 10))

\* Mutant of TrendValues: the two weights exchanged.
TrendValuesRsiHeavy(close, rsi, ma_20, ma_50, ma_200) ==
    IF ~Ordered(close, ma_20) THEN Exc
    ELSE IF ~Ordered(close, ma_50) THEN Exc
    ELSE IF ~Ordered(close, ma_200) THEN Exc
    ELSE IF ~Ordered(rsi, PyInt(70)) THEN Exc
    ELSE Clamp(PyInt(-100), PyInt(100),
               PyAdd(PyMul(MaScore(close, ma_20, ma_50, ma_200), Num(4, 10)),
                     PyMul(RsiScore(rsi), Num(6, 10))))

(* _calculate_trend_sentiment: the comparisons and the combination.        *)
TrendValues(close, rsi, ma_20, ma_50, ma_200) ==
    IF ~Ordered(close, ma_20) THEN Exc
    ELSE IF ~Ordered(close, ma_50) THEN Exc
    ELSE IF ~Ordered(close, ma_200) THEN Exc
    ELSE IF ~Ordered(rsi, PyInt(70)) THEN Exc
    ELSE Clamp(PyInt(-100), PyInt(100),
               PyAdd(PyMul(MaScore(close, ma_20, ma_50, ma_200), Num(6, 10)),
                     PyMul(RsiScore(rsi), Num(4, 10))))

(* _calculate_trend_sentiment: rsi and the averages, defaulting to close.  *)
TrendClose(md, close) ==
    TrendValues(close, Get(md, "rsi", PyInt(50)), Get(md, "ma_20", close),
                Get(md, "ma_50", close), Get(md, "ma_200", close))

(* _calculate_trend_sentiment: the body of the try block.                  *)
TrendBody(md) == TrendClose(md, Get(md, "close", PyInt(0)))

_calculate_trend_sentiment(md) == Try(TrendBody(md), PyInt(0))

(* _calculate_volume_sentiment: the score of one ratio bucket, chosen by   *)
(* the sign of change_pct; comparing a non-number with 0 raises.           *)
BySign(change_pct, up, down, flat) ==
    IF ~Ordered(change_pct, PyInt(0)) THEN Exc
    ELSE IF Gt(change_pct, PyInt(0)) THEN PyInt(up)
    ELSE IF Lt(change_pct, PyInt(0)) THEN PyInt(down)
    ELSE PyInt(flat)

\* Mutant of VolumeRatio: a ratio on a boundary takes the upper bucket.
VolumeRatioInclusive(volume_ratio, change_pct) ==
    IF IsExc(volume_ratio) THEN Exc
    ELSE Clamp(PyInt(-100), PyInt(100),
            IF Ge(volume_ratio, Num(15, 10)) THEN BySign(change_pct, 70, -70, 30)
            ELSE IF Ge(volume_ratio, PyInt(1)) THEN BySign(change_pct, 40, -40, 0)
            ELSE IF Ge(volume_ratio, Num(7, 10)) THEN BySign(change_pct, 20, -20, -10)
            ELSE PyInt(-40))

(* _calculate_volume_sentiment: the buckets of volume_ratio.               *)
VolumeRatio(volume_ratio, change_pct) ==
    IF IsExc(volume_ratio) THEN Exc
    ELSE Clamp(PyInt(-100), PyInt(100),
            IF Gt(volume_ratio, Num(15, 10)) THEN BySign(change_pct, 70, -70, 30)
            ELSE IF Gt(volume_ratio, PyInt(1)) THEN BySign(change_pct, 40, -40, 0)
            ELSE IF Gt(volume_ratio, Num(7, 10)) THEN BySign(change_pct, 20, -20, -10)
            ELSE PyInt(-40))

\* Mutant of VolumeAvg: no early return; a zero average gives ratio 1.
VolumeAvgNoReturn(volume, volume_avg, change_pct) ==
    IF IsExc(volume) \/ IsExc(volume_avg) THEN Exc
    ELSE IF PyEq(volume_avg, PyInt(0)) THEN VolumeRatio(PyInt(1), change_pct)
    ELSE VolumeRatio(PyDiv(volume, volume_avg), change_pct)

(* _calculate_volume_sentiment: the zero-average return and the ratio.     *)
VolumeAvg(volume, volume_avg, change_pct) ==
    IF IsExc(volume) \/ IsExc(volume_avg) THEN Exc
    ELSE IF PyEq(volume_avg, PyInt(0)) THEN PyInt(0)
    ELSE VolumeRatio(PyDiv(volume, volume_avg), change_pct)

(* _calculate_volume_sentiment: volume_avg_20d defaults to volume.         *)
VolumeOf(md, volume) ==
    VolumeAvg(volume, Get(md, "volume_avg_20d", volume),
              Get(md, "change_pct", PyInt(0)))

(* _calculate_volume_sentiment: the body of the try block.                 *)
VolumeBody(md) == VolumeOf(md, Get(md, "volume", PyInt(0)))

_calculate_volume_sentiment(md) == Try(VolumeBody(md), PyInt(0))

(* _calculate_technical_levels: the keys of the dict it returns.           *)
LevelKeys ==
    {"pivot_point", "resistance_r1", "resistance_r2", "support_s1",
     "support_s2", "ma_20", "ma_50", "ma_200"}

ZeroLevels == [k \in LevelKeys |-> PyInt(0)]

(* _calculate_technical_levels: the dict, or Exc when a float() raised.    *)
LevelsChecked(levels) ==
    IF \E k \in LevelKeys : IsExc(levels[k]) THEN Exc ELSE levels

\* Mutant of LevelsDict: resistance_r2 and support_s2 exchanged.
LevelsDictExchanged(pivot, r1, r2, s1, s2, ma_20, ma_50, ma_200) ==
    LevelsChecked(
        [pivot_point   |-> PyFloat(pivot),
         resistance_r1 |-> PyFloat(r1),
         resistance_r2 |-> PyFloat(s2),
         support_s1    |-> PyFloat(s1),
         support_s2    |-> PyFloat(r2),
         ma_20         |-> PyFloat(ma_20),
         ma_50         |-> PyFloat(ma_50),
         ma_200        |-> PyFloat(ma_200)])

LevelsDict(pivot, r1, r2, s1, s2, ma_20, ma_50, ma_200) ==
    LevelsChecked(
        [pivot_point   |-> PyFloat(pivot),
         resistance_r1 |-> PyFloat(r1),
         resistance_r2 |-> PyFloat(r2),
         support_s1    |-> PyFloat(s1),
         support_s2    |-> PyFloat(s2),
         ma_20         |-> PyFloat(ma_20),
         ma_50         |-> PyFloat(ma_50),
         ma_200        |-> PyFloat(ma_200)])

\* Mutant of LevelsPivot: resistance_1 and support_1 exchanged.
LevelsPivotSwapped(high, low, pivot, ma_20, ma_50, ma_200) ==
    LevelsDict(pivot,
               PySub(PyMul(PyInt(2), pivot), high),
               PyAdd(pivot, PySub(high, low)),
               PySub(PyMul(PyInt(2), pivot), low),
               PySub(pivot, PySub(high, low)),
               ma_20, ma_50, ma_200)

(* _calculate_technical_levels: the pivot-point formulas.                  *)
LevelsPivot(high, low, pivot, ma_20, ma_50, ma_200) ==
    LevelsDict(pivot,
               PySub(PyMul(PyInt(2), pivot), low),
               PyAdd(pivot, PySub(high, low)),
               PySub(PyMul(PyInt(2), pivot), high),
               PySub(pivot, PySub(high, low)),
               ma_20, ma_50, ma_200)

\* Mutant of LevelsPrices: the pivot formulas apply from 0 on.
LevelsPricesInclusive(close, high, low, ma_20, ma_50, ma_200) ==
    IF \/ ~Ordered(close, PyInt(0))
       \/ /\ Ge(close, PyInt(0))
          /\ \/ ~Ordered(high, PyInt(0))
             \/ Ge(high, PyInt(0)) /\ ~Ordered(low, PyInt(0))
    THEN Exc
    ELSE IF Ge(close, PyInt(0)) /\ Ge(high, PyInt(0)) /\ Ge(low, PyInt(0))
    THEN LevelsPivot(high, low, PyDiv(PyAdd(PyAdd(high, low), close), PyInt(3)),
                     ma_20, ma_50, ma_200)
    ELSE LevelsDict(close, close, close, close, close, ma_20, ma_50, ma_200)

(* _calculate_technical_levels: close > 0 and high > 0 and low > 0, left   *)
(* to right with short-circuit, and the two branches.                      *)
LevelsPrices(close, high, low, ma_20, ma_50, ma_200) ==
    IF \/ ~Ordered(close, PyInt(0))
       \/ /\ Gt(close, PyInt(0))
          /\ \/ ~Ordered(high, PyInt(0))
             \/ Gt(high, PyInt(0)) /\ ~Ordered(low, PyInt(0))
    THEN Exc
    ELSE IF Gt(close, PyInt(0)) /\ Gt(high, PyInt(0)) /\ Gt(low, PyInt(0))
    THEN LevelsPivot(high, low, PyDiv(PyAdd(PyAdd(high, low), close), PyInt(3)),
                     ma_20, ma_50, ma_200)
    ELSE LevelsDict(close, close, close, close, close, ma_20, ma_50, ma_200)

(* _calculate_technical_levels: high, low and the averages, defaulting to  *)
(* close.                                                                  *)
LevelsClose(md, close) ==
    LevelsPrices(close, Get(md, "high", PyInt(0)), Get(md, "low", PyInt(0)),
                 Get(md, "ma_20", close), Get(md, "ma_50", close),
                 Get(md, "ma_200", close))

(* _calculate_technical_levels: the body of the try block.                 *)
LevelsBody(md) == LevelsClose(md, Get(md, "close", PyInt(0)))

\* Mutant of LevelsFallback: the except branch returns only the pivot.
LevelsFallbackPivotOnly == [pivot_point |-> PyInt(0)]

\* The dict returned by the except branch of _calculate_technical_levels.
LevelsFallback == ZeroLevels

(* _calculate_technical_levels: try / except around the body v.            *)
LevelsResult(v) ==
    IF DOMAIN v = LevelKeys
    THEN [val |-> v, fault |-> FALSE, escaped |-> FALSE]
    ELSE [val |-> LevelsFallback, fault |-> TRUE, escaped |-> FALSE]

_calculate_technical_levels(md) == LevelsResult(LevelsBody(md))

\* Mutant of _get_sentiment_label: strict comparisons.
_get_sentiment_label_strict(s) ==
    IF Gt(s, thresholds.very_bullish) THEN SENTIMENT_LABELS.very_bullish
    ELSE IF Gt(s, thresholds.bullish) THEN SENTIMENT_LABELS.bullish
    ELSE IF Gt(s, thresholds.neutral) THEN SENTIMENT_LABELS.neutral
    ELSE IF Gt(s, thresholds.bearish) THEN SENTIMENT_LABELS.bearish
    ELSE SENTIMENT_LABELS.very_bearish

(* _get_sentiment_label, for a numeric score, under self.thresholds.       *)
_get_sentiment_label(s) ==
    IF Ge(s, thresholds.very_bullish) THEN SENTIMENT_LABELS.very_bullish
    ELSE IF Ge(s, thresholds.bullish) THEN SENTIMENT_LABELS.bullish
    ELSE IF Ge(s, thresholds.neutral) THEN SENTIMENT_LABELS.neutral
    ELSE IF Ge(s, thresholds.bearish) THEN SENTIMENT_LABELS.bearish
    ELSE SENTIMENT_LABELS.very_bearish

\* Mutant of ConfidenceCount: volume counts whenever it is not 0.
ConfidenceCountNonzero(md, advances, volume) ==
    LET positive(v) == IF Gt(v, PyInt(0)) THEN 1 ELSE 0
        nonzero(k)  == IF ~PyEq(Get(md, k, PyInt(0)), PyInt(0)) THEN 1 ELSE 0
        total_signals == 8
    IN  IF ~md.mapping THEN Exc
        ELSE IF ~Ordered(advances, PyInt(0)) THEN Exc
        ELSE IF ~Ordered(volume, PyInt(0)) THEN Exc
        ELSE Clamp(PyInt(0), PyInt(1),
                   PyDiv(PyInt(positive(advances) + nonzero("change_pct")
                               + nonzero("rsi") + nonzero("macd")
                               + nonzero("volume") + nonzero("ma_20")
                               + nonzero("ma_50") + nonzero("ma_200")),
                         PyInt(total_signals)))

(* _calculate_confidence: the eight signal tests and the ratio.            *)
ConfidenceCount(md, advances, volume) ==
    LET positive(v) == IF Gt(v, PyInt(0)) THEN 1 ELSE 0
        nonzero(k)  == IF ~PyEq(Get(md, k, PyInt(0)), PyInt(0)) THEN 1 ELSE 0
        total_signals == 8
    IN  IF ~md.mapping THEN Exc
        ELSE IF ~Ordered(advances, PyInt(0)) THEN Exc
        ELSE IF ~Ordered(volume, PyInt(0)) THEN Exc
        ELSE Clamp(PyInt(0), PyInt(1),
                   PyDiv(PyInt(positive(advances) + nonzero("change_pct")
                               + nonzero("rsi") + nonzero("macd")
                               + positive(volume) + nonzero("ma_20")
                               + nonzero("ma_50") + nonzero("ma_200")),
                         PyInt(total_signals)))

(* _calculate_confidence: the body of the try block.                       *)
ConfidenceBody(md) ==
    ConfidenceCount(md, Get(md, "advances", PyInt(0)), Get(md, "volume", PyInt(0)))

\* Mutant of _calculate_confidence: the except branch returns 0.0.
_calculate_confidence_zero(md) == Try(ConfidenceBody(md), PyInt(0))

_calculate_confidence(md) == Try(ConfidenceBody(md), Num(5, 10))

(* _default_sentiment.                                                     *)
_default_sentiment(clock) ==
    [overall_score    |-> PyInt(0),
     sentiment_label  |-> SENTIMENT_LABELS.neutral,
     components       |-> [breadth_score |-> PyInt(0), momentum_score |-> PyInt(0),
                           trend_score |-> PyInt(0), volume_score |-> PyInt(0)],
     technical_levels |-> ZeroLevels,
     timestamp        |-> clock,
     analysis_date    |-> clock.date,
     confidence       |-> PyInt(0)]

\* The analysis_date argument when it is None.
NoDate == 0

(* calculate_sentiment: the weighted overall score, clamped.               *)
OverallScore(b, m, t, v, W) ==
    Clamp(PyInt(-100), PyInt(100),
          PyAdd(PyAdd(PyAdd(PyMul(b, W.breadth), PyMul(m, W.momentum)),
                      PyMul(t, W.trend)),
                PyMul(v, W.volume)))

(* The except branches the calculations of one call took.                  *)
Absorbed(b, m, t, v, tl, c) ==
    {k \in {"breadth", "momentum", "trend", "volume",
            "technical_levels", "confidence"} :
        CASE k = "breadth"  -> b.fault
          [] k = "momentum" -> m.fault
          [] k = "trend"    -> t.fault
          [] k = "volume"   -> v.fault
          [] k = "technical_levels" -> tl.fault
          [] OTHER          -> c.fault}

(* calculate_sentiment: the outer try / except around the results b, m, t, *)
(* v, tl, c of the calculations and the overall score.  An exception that  *)
(* reaches it gives _default_sentiment.                                    *)
Assemble(b, m, t, v, overall_score, tl, c, ad, clock) ==
    IF \/ b.escaped \/ m.escaped \/ t.escaped \/ v.escaped
       \/ IsExc(overall_score)
       \/ tl.escaped \/ c.escaped
    THEN [result  |-> _default_sentiment(clock),
          outcome |-> "returned",
          faults  |-> Absorbed(b, m, t, v, tl, c) \cup {"calculate_sentiment"}]
    ELSE [result  |->
            [overall_score    |-> overall_score,
             sentiment_label  |-> _get_sentiment_label(overall_score),
             components       |-> [breadth_score  |-> b.val,
                                   momentum_score |-> m.val,
                                   trend_score    |-> t.val,
                                   volume_score   |-> v.val],
             technical_levels |-> tl.val,
             timestamp        |-> clock,
             analysis_date    |-> IF ad # NoDate THEN ad ELSE clock.date,
             confidence       |-> c.val],
          outcome |-> "returned",
          faults  |-> Absorbed(b, m, t, v, tl, c)]

(* calculate_sentiment: the overall score of the four sub-scores.          *)
Scored(b, m, t, v, tl, c, ad, clock) ==
    Assemble(b, m, t, v,
             OverallScore(b.val, m.val, t.val, v.val, weights),
             tl, c, ad, clock)

(* calculate_sentiment: returns the result, how the call ended and the     *)
(* except branches taken.  clock is what datetime.now() returns; ad is the *)
(* analysis_date argument.                                                 *)
calculate_sentiment(md, ad, clock) ==
    Scored(_calculate_breadth_sentiment(md), _calculate_momentum_sentiment(md),
           _calculate_trend_sentiment(md), _calculate_volume_sentiment(md),
           _calculate_technical_levels(md), _calculate_confidence(md),
           ad, clock)

---------------------------------------------------------------------------
(* The inputs the calculator is run on.                                    *)

MaxCount    == 11  \* advances, declines, unchanged range over 0..MaxCount
MaxExtremes == 7   \* new_highs, new_lows range over 0..MaxExtremes
MaxVolume   == 10  \* volume, volume_avg_20d range over 0..MaxVolume
MaxAbsent   == 2   \* fields dropped from (or kept of) a complete record
MaxBad      == 2   \* fields of a complete record holding a malformed value

\* The fields calculate_sentiment reads (open is read and not used).
ReadFields ==
    {"open", "high", "low", "close", "volume", "volume_avg_20d", "advances",
     "declines", "unchanged", "new_highs", "new_lows", "rsi", "macd",
     "ma_20", "ma_50", "ma_200", "change_pct"}

\* The named fields of a market-data record.
NamedFields == ReadFields \cup {"macd_signal", "stochastic"}

Mapping(items) == [mapping |-> TRUE, items |-> items]
NotMapping     == [mapping |-> FALSE, items |-> [k \in {} |-> None]]
EmptyRecord    == Mapping([k \in {} |-> None])

\* items restricted to the keys in S.
Keep(items, S) == [k \in (DOMAIN items) \cap S |-> items[k]]

\* The record the data handler falls back to (data_handler.py).
FallbackRecord ==
    [close |-> PyInt(13000), open |-> PyInt(12950), high |-> PyInt(13100),
     low |-> PyInt(12900), volume |-> PyInt(2000),
     volume_avg_20d |-> PyInt(1800), advances |-> PyInt(350),
     declines |-> PyInt(280), unchanged |-> PyInt(70),
     new_highs |-> PyInt(10), new_lows |-> PyInt(8),
     change_pct |-> Num(4, 10), rsi |-> PyInt(50), macd |-> PyInt(0),
     macd_signal |-> PyInt(0), stochastic |-> PyInt(50),
     ma_20 |-> PyInt(12980), ma_50 |-> PyInt(12950), ma_200 |-> PyInt(12900)]

\* A strongly rising day: every sub-score is high.
RallyRecord ==
    [close |-> PyInt(13050), open |-> PyInt(12950), high |-> PyInt(13100),
     low |-> PyInt(12900), volume |-> PyInt(3000),
     volume_avg_20d |-> PyInt(1800), advances |-> PyInt(500),
     declines |-> PyInt(150), unchanged |-> PyInt(50),
     new_highs |-> PyInt(20), new_lows |-> PyInt(2),
     change_pct |-> PyInt(5), rsi |-> PyInt(60), macd |-> PyInt(4),
     macd_signal |-> PyInt(3), stochastic |-> PyInt(70),
     ma_20 |-> PyInt(12980), ma_50 |-> PyInt(12950), ma_200 |-> PyInt(12900)]

\* A falling day on low volume.
SelloffRecord ==
    [close |-> PyInt(12800), open |-> PyInt(12950), high |-> PyInt(12960),
     low |-> PyInt(12780), volume |-> PyInt(1000),
     volume_avg_20d |-> PyInt(1800), advances |-> PyInt(100),
     declines |-> PyInt(550), unchanged |-> PyInt(50),
     new_highs |-> PyInt(1), new_lows |-> PyInt(30),
     change_pct |-> PyInt(-6), rsi |-> PyInt(40), macd |-> PyInt(-4),
     macd_signal |-> PyInt(-3), stochastic |-> PyInt(20),
     ma_20 |-> PyInt(12980), ma_50 |-> PyInt(12950), ma_200 |-> PyInt(12900)]

BaseRecords == {FallbackRecord, RallyRecord, SelloffRecord}

\* The worked examples of the documentation.
ExampleRecords ==
    {Mapping([advances |-> PyInt(400), declines |-> PyInt(250),
              unchanged |-> PyInt(50)]),
     Mapping([close |-> PyInt(13050), open |-> PyInt(12950),
              change_pct |-> Num(772, 1000)]),
     Mapping([high |-> PyInt(13100), low |-> PyInt(12900),
              close |-> PyInt(13050)]),
     Mapping([rsi |-> PyInt(75)])}

BreadthRecords ==
    {Mapping([advances |-> PyInt(a), declines |-> PyInt(d), unchanged |-> PyInt(u)]) :
        a \in 0..MaxCount, d \in 0..MaxCount, u \in 0..MaxCount}

ChangePcts ==
    {Num(k, 100) : k \in {-600, -500, -100, -77, -50, -49, -10, 0,
                          10, 49, 50, 77, 100, 500, 600}}

MomentumRecords ==
    {Mapping([change_pct |-> c, new_highs |-> PyInt(h), new_lows |-> PyInt(l)]) :
        c \in ChangePcts, h \in 0..MaxExtremes, l \in 0..MaxExtremes}

\* A key with each of the values, or no key at all.
Optional(key, values) == {[k \in {} |-> None]} \cup {(key :> x) : x \in values}

RsiValues ==
    {PyInt(k) : k \in {0, 10, 29, 30, 31, 50, 69, 70, 71, 75, 80, 90, 100}}

TrendRecords ==
    {Mapping(c @@ r @@ a @@ b @@ d) :
        c \in Optional("close", {PyInt(0), PyInt(100)}),
        r \in Optional("rsi", RsiValues),
        a \in Optional("ma_20", {PyInt(90), PyInt(100), PyInt(110)}),
        b \in Optional("ma_50", {PyInt(90), PyInt(100), PyInt(110)}),
        d \in Optional("ma_200", {PyInt(90), PyInt(100), PyInt(110)})}

VolumeRecords ==
    {Mapping(v @@ a @@ c) :
        v \in Optional("volume", {PyInt(k) : k \in 0..MaxVolume}),
        a \in Optional("volume_avg_20d", {PyInt(k) : k \in 0..MaxVolume}),
        c \in Optional("change_pct", {PyInt(-1), PyInt(0), PyInt(1)})}

PriceValues == {PyInt(-10), PyInt(0), PyInt(90), PyInt(100), PyInt(110)}

LevelRecords ==
    {Mapping(c @@ h @@ l @@ a) :
        c \in Optional("close", PriceValues),
        h \in Optional("high", PriceValues),
        l \in Optional("low", PriceValues),
        a \in Optional("ma_20", {PyInt(95)})}

\* The subsets of S of at most n elements.
RECURSIVE SmallSets(_, _)
SmallSets(S, n) ==
    IF n = 0 THEN {{}}
    ELSE LET P == SmallSets(S, n - 1) IN P \cup {T \cup {x} : T \in P, x \in S}

\* Complete records with at most MaxAbsent fields missing, and records
\* holding at most MaxAbsent fields.
SparseRecords ==
    {Mapping(Keep(r, NamedFields \ T)) :
        r \in BaseRecords, T \in SmallSets(NamedFields, MaxAbsent)}
    \cup
    {Mapping(Keep(r, T)) :
        r \in BaseRecords, T \in SmallSets(NamedFields, MaxAbsent)}

\* Values no calculation expects: None, two strings, a negative number.
BadValues == {None, Str(1), Str(2), PyInt(-1)}

\* Complete records in which at most MaxBad of the fields read hold a
\* malformed value, and records whose fields are all malformed.
MalformedRecords ==
    UNION {{Mapping(f @@ r) : r \in {FallbackRecord, RallyRecord},
                              f \in [T -> BadValues]} :
           T \in SmallSets(ReadFields, MaxBad)}
    \cup {Mapping([k \in NamedFields |-> x]) : x \in BadValues}
    \cup {NotMapping}

ValidRecords ==
    BreadthRecords \cup MomentumRecords \cup TrendRecords \cup VolumeRecords
    \cup LevelRecords \cup SparseRecords \cup ExampleRecords \cup {EmptyRecord}

\* Records whose volume_avg_20d is 0, with any volume and change_pct,
\* malformed ones included.
DegenerateVolumeRecords ==
    {Mapping(v @@ ("volume_avg_20d" :> z) @@ c) :
        v \in Optional("volume", BadValues \cup {PyInt(0), PyInt(5)}),
        z \in {PyInt(0), Num(0, 10)},
        c \in Optional("change_pct", BadValues \cup {PyInt(0), PyInt(1)})}

\* Records on which every sub-score is at an end of its range: all issues
\* advancing on a strongly rising day with heavy volume, and the reverse.
ExtremeRecords ==
    {Mapping([advances |-> PyInt(700), declines |-> PyInt(0),
              unchanged |-> PyInt(0), new_highs |-> PyInt(10),
              new_lows |-> PyInt(0), change_pct |-> PyInt(5),
              rsi |-> PyInt(29), volume |-> PyInt(3000)] @@ RallyRecord),
     Mapping([advances |-> PyInt(0), declines |-> PyInt(700),
              unchanged |-> PyInt(0), new_highs |-> PyInt(0),
              new_lows |-> PyInt(10), change_pct |-> PyInt(-5),
              rsi |-> PyInt(100), volume |-> PyInt(3000)] @@ SelloffRecord)}

Records ==
    ValidRecords \cup MalformedRecords \cup DegenerateVolumeRecords
    \cup ExtremeRecords

\* Whatever calculate_sentiment returned before the first call.
NoResult == [pending |-> TRUE]

StartClock == [date |-> 1, time |-> 0]

---------------------------------------------------------------------------
(* The engine: one call of calculate_sentiment on one record.              *)

LabelIdle ==
    /\ score = None
    /\ label = ""
    /\ prev_score = None
    /\ prev_label = ""

(* __init__: the calculator holds the configured weights and thresholds.   *)
NewCalculator ==
    /\ weights = SENTIMENT_WEIGHTS
    /\ thresholds = THRESHOLDS

\* No Bloomberg client.
NoClient ==
    /\ session = "None"
    /\ connected = FALSE
    /\ lock = "free"
    /\ connect_pc = "idle"
    /\ retries = 0
    /\ attempt = 0
    /\ connect_result = "none"
    /\ attempts_made = 0
    /\ calls = 0

\* What a call that has not returned has returned.
Pending == [pending |-> TRUE]

\* No data handler call and no chart.
NoHandler ==
    /\ historical_file = [kind |-> "missing"]
    /\ historical_data = Pending
    /\ fig = Pending

\* No concurrent calls.
NoCalls ==
    /\ pc = <<>>
    /\ args = <<>>
    /\ locals = <<>>
    /\ returned = <<>>

Init ==
    /\ \/ market_data \in Records /\ analysis_date = NoDate
       \/ market_data \in ExampleRecords /\ analysis_date \in {1, 2}
    /\ now = StartClock
    /\ result = NoResult
    /\ outcome = "pending"
    /\ faults = {}
    /\ LabelIdle
    /\ NewCalculator
    /\ NoCalls
    /\ NoClient
    /\ NoHandler

\* The call returns r.
Return(r) ==
    /\ result' = r.result
    /\ outcome' = r.outcome
    /\ faults' = r.faults

CalculateSentiment ==
    /\ outcome = "pending"
    /\ Return(calculate_sentiment(market_data, analysis_date, now))
    /\ now' = [now EXCEPT !.time = @ + 1]
    /\ UNCHANGED <<market_data, analysis_date, score, label, prev_score, prev_label>>
    /\ UNCHANGED <<weights, thresholds, pc, args, locals, returned>>
    /\ UNCHANGED io_vars

Next == CalculateSentiment

Spec == Init /\ [][Next]_vars

---------------------------------------------------------------------------
(* The label classifier alone: a first and a second call of               *)
(* _get_sentiment_label on scores of the clamped range [-100, 100].  The   *)
(* classifier keeps no state, so two calls show every pair of scores.      *)

ScoreDen == 1  \* the scores are the multiples of 1/ScoreDen

LabelScores == {Num(k, ScoreDen) : k \in (-100 * ScoreDen)..(100 * ScoreDen)}

InitLabel ==
    /\ market_data = EmptyRecord
    /\ analysis_date = NoDate
    /\ now = StartClock
    /\ result = NoResult
    /\ outcome = "pending"
    /\ faults = {}
    /\ LabelIdle
    /\ NewCalculator
    /\ NoCalls
    /\ NoClient
    /\ NoHandler

GetSentimentLabel(s) ==
    /\ prev_label = ""
    /\ score' = s
    /\ label' = _get_sentiment_label(s)
    /\ prev_score' = score
    /\ prev_label' = label
    /\ UNCHANGED <<market_data, analysis_date, now, result, outcome, faults>>
    /\ UNCHANGED <<weights, thresholds, pc, args, locals, returned>>
    /\ UNCHANGED io_vars

NextLabel == \E s \in LabelScores : GetSentimentLabel(s)

SpecLabel == InitLabel /\ [][NextLabel]_vars

---------------------------------------------------------------------------
(* Concurrent calls of calculate_sentiment on one calculator.  Each call   *)
(* runs the statements of the try block one at a time, interleaved with    *)
(* the other calls; a statement reads the call's argument, the locals of   *)
(* its frame and self.weights, and assigns a local.  The label is a        *)
(* function of the local overall_score alone and is taken with the return  *)
(* statement.                                                              *)

MaxThreads == 2  \* concurrent calls

Threads == 1..MaxThreads

\* The records the concurrent calls are given.
ThreadRecords ==
    {Mapping(FallbackRecord), Mapping(RallyRecord), Mapping(SelloffRecord),
     Mapping(("advances" :> None) @@ RallyRecord)}

\* Mutant of Frame: the locals are kept in one place shared by all calls.
FrameShared(t) == 1

\* The frame holding the locals of call t: every call has its own.
Frame(t) == t

\* The locals of a call that has not assigned any.
NoLocals ==
    [breadth_score |-> None, momentum_score |-> None, trend_score |-> None,
     volume_score |-> None, overall_score |-> None, technical_levels |-> None]

InitThreads ==
    /\ market_data = EmptyRecord
    /\ analysis_date = NoDate
    /\ now = StartClock
    /\ result = NoResult
    /\ outcome = "pending"
    /\ faults = {}
    /\ LabelIdle
    /\ NewCalculator
    /\ args \in [Threads -> ThreadRecords]
    /\ pc = [t \in Threads |-> "breadth"]
    /\ locals = [f \in Threads |-> NoLocals]
    /\ returned = [t \in Threads |-> NoResult]
    /\ NoClient
    /\ NoHandler

\* Call t assigns the local name and goes on to the statement next.
Assign(t, name, value, next) ==
    /\ locals' = [locals EXCEPT ![Frame(t)][name] = value]
    /\ pc' = [pc EXCEPT ![t] = next]
    /\ UNCHANGED <<market_data, analysis_date, now, result, outcome, faults,
                   score, label, prev_score, prev_label,
                   weights, thresholds, args, returned>>
    /\ UNCHANGED io_vars

StepBreadth(t) ==
    /\ pc[t] = "breadth"
    /\ Assign(t, "breadth_score", _calculate_breadth_sentiment(args[t]), "momentum")

StepMomentum(t) ==
    /\ pc[t] = "momentum"
    /\ Assign(t, "momentum_score", _calculate_momentum_sentiment(args[t]), "trend")

StepTrend(t) ==
    /\ pc[t] = "trend"
    /\ Assign(t, "trend_score", _calculate_trend_sentiment(args[t]), "volume")

StepVolume(t) ==
    /\ pc[t] = "volume"
    /\ Assign(t, "volume_score", _calculate_volume_sentiment(args[t]), "overall")

\* The locals f of a frame give the weighted, clamped overall score.
OverallOf(f, W) ==
    OverallScore(f.breadth_score.val, f.momentum_score.val,
                 f.trend_score.val, f.volume_score.val, W)

StepOverall(t) ==
    /\ pc[t] = "overall"
    /\ Assign(t, "overall_score", OverallOf(locals[Frame(t)], weights), "levels")

StepLevels(t) ==
    /\ pc[t] = "levels"
    /\ Assign(t, "technical_levels", _calculate_technical_levels(args[t]), "return")

\* The dict the return statement builds from the locals f, with the
\* confidence c computed in it and the clock read in it.
ResultOf(f, c, clock) ==
    Assemble(f.breadth_score, f.momentum_score, f.trend_score, f.volume_score,
             f.overall_score, f.technical_levels, c, NoDate, clock).result

StepReturn(t) ==
    /\ pc[t] = "return"
    /\ returned' = [returned EXCEPT ![t] =
                      ResultOf(locals[Frame(t)], _calculate_confidence(args[t]), now)]
    /\ pc' = [pc EXCEPT ![t] = "done"]
    /\ now' = [now EXCEPT !.time = @ + 1]
    /\ UNCHANGED <<market_data, analysis_date, result, outcome, faults,
                   score, label, prev_score, prev_label,
                   weights, thresholds, args, locals>>
    /\ UNCHANGED io_vars

NextThreads ==
    \E t \in Threads :
        \/ StepBreadth(t)
        \/ StepMomentum(t)
        \/ StepTrend(t)
        \/ StepVolume(t)
        \/ StepOverall(t)
        \/ StepLevels(t)
        \/ StepReturn(t)

SpecThreads == InitThreads /\ [][NextThreads]_vars

---------------------------------------------------------------------------
(* BloombergClient.connect (bl_client.py): the retry loop, one statement   *)
(* at a time.  What the Bloomberg API does is the environment's choice:    *)
(* creating the session succeeds or raises; start and openService return   *)
(* True, return False or raise; stop returns or raises.  The first call is *)
(* the one __init__ makes, with the default retries.                       *)

MaxRetries == 3  \* retries ranges over -1..MaxRetries
MaxCalls   == 2  \* connect calls on one client

\* The default of the retries parameter.
DefaultRetries == 3

RetryValues == -1..MaxRetries

(* __init__: the fields before it calls connect.                           *)
InitConnect ==
    /\ market_data = EmptyRecord
    /\ analysis_date = NoDate
    /\ now = StartClock
    /\ result = NoResult
    /\ outcome = "pending"
    /\ faults = {}
    /\ LabelIdle
    /\ NewCalculator
    /\ NoCalls
    /\ NoHandler
    /\ session = "None"
    /\ connected = FALSE
    /\ lock = "free"
    /\ connect_pc = "idle"
    /\ retries = 0
    /\ attempt = 0
    /\ connect_result = "none"
    /\ attempts_made = 0
    /\ calls = 0

\* Mutant of HasNext: the loop makes one attempt more.
HasNextInclusive(i, n) == i <= n

\* for attempt in range(retries): there is a value for the index i.
HasNext(i, n) == i < n

\* connect(r) is called.
Call(r) ==
    /\ connect_pc \in {"idle", "done"}
    /\ calls < MaxCalls
    /\ calls = 0 => r = DefaultRetries
    /\ calls' = calls + 1
    /\ retries' = r
    /\ attempt' = 0
    /\ attempts_made' = 0
    /\ connect_result' = "none"
    /\ connect_pc' = "for"
    /\ UNCHANGED <<session, connected, lock>>
    /\ UNCHANGED <<calc_vars, handler_vars, chart_vars>>

\* The for statement: the next attempt, or the end of the loop.
For ==
    /\ connect_pc = "for"
    /\ connect_pc' = IF HasNext(attempt, retries) THEN "with" ELSE "exhausted"
    /\ UNCHANGED <<session, connected, lock, retries, attempt, connect_result,
                   attempts_made, calls>>
    /\ UNCHANGED <<calc_vars, handler_vars, chart_vars>>

\* with self.lock: the attempt begins by acquiring the lock.
Acquire ==
    /\ connect_pc = "with"
    /\ lock = "free"
    /\ lock' = "held"
    /\ attempts_made' = attempts_made + 1
    /\ connect_pc' = "session"
    /\ UNCHANGED <<session, connected, retries, attempt, connect_result, calls>>
    /\ UNCHANGED <<calc_vars, handler_vars, chart_vars>>

\* The attempt leaves the with block through continue: the lock is
\* released and the loop goes on with the next index.
Continue ==
    /\ lock' = "free"
    /\ attempt' = attempt + 1
    /\ connect_pc' = "for"

\* The attempt leaves the with block through an exception: the lock is
\* released and the handler runs.
Raise ==
    /\ lock' = "free"
    /\ attempt' = attempt
    /\ connect_pc' = "except"

\* SessionOptions and Session are created, or one of the calls raises.
CreateSession(ok) ==
    /\ connect_pc = "session"
    /\ IF ok
       THEN /\ session' = "created"
            /\ connect_pc' = "start"
            /\ UNCHANGED <<lock, attempt>>
       ELSE /\ Raise
            /\ UNCHANGED session
    /\ UNCHANGED <<connected, retries, connect_result, attempts_made, calls>>
    /\ UNCHANGED <<calc_vars, handler_vars, chart_vars>>

\* self.session.start() returns True or False, or raises.
Start(r) ==
    /\ connect_pc = "start"
    /\ CASE r = "True"  -> /\ session' = "started"
                           /\ connect_pc' = "open"
                           /\ UNCHANGED <<lock, attempt>>
         [] r = "False" -> /\ Continue
                           /\ UNCHANGED session
         [] OTHER       -> /\ Raise
                           /\ UNCHANGED session
    /\ UNCHANGED <<connected, retries, connect_result, attempts_made, calls>>
    /\ UNCHANGED <<calc_vars, handler_vars, chart_vars>>

\* self.session.openService returns True (connected, return True), returns
\* False (the session is to be stopped) or raises.
OpenService(r) ==
    /\ connect_pc = "open"
    /\ CASE r = "True"  -> /\ session' = "opened"
                           /\ connected' = TRUE
                           /\ lock' = "free"
                           /\ connect_result' = "True"
                           /\ connect_pc' = "done"
                           /\ UNCHANGED attempt
         [] r = "False" -> /\ connect_pc' = "stop"
                           /\ UNCHANGED <<session, connected, lock, attempt,
                                          connect_result>>
         [] OTHER       -> /\ Raise
                           /\ UNCHANGED <<session, connected, connect_result>>
    /\ UNCHANGED <<retries, attempts_made, calls>>
    /\ UNCHANGED <<calc_vars, handler_vars, chart_vars>>

\* self.session.stop() returns, and the attempt continues, or raises.
Stop(ok) ==
    /\ connect_pc = "stop"
    /\ IF ok
       THEN /\ session' = "stopped"
            /\ Continue
       ELSE /\ Raise
            /\ UNCHANGED session
    /\ UNCHANGED <<connected, retries, connect_result, attempts_made, calls>>
    /\ UNCHANGED <<calc_vars, handler_vars, chart_vars>>

\* except Exception: log, sleep, next index.
Except ==
    /\ connect_pc = "except"
    /\ attempt' = attempt + 1
    /\ connect_pc' = "for"
    /\ UNCHANGED <<session, connected, lock, retries, connect_result,
                   attempts_made, calls>>
    /\ UNCHANGED <<calc_vars, handler_vars, chart_vars>>

\* After the loop: connected = False, return False.
Exhausted ==
    /\ connect_pc = "exhausted"
    /\ connected' = FALSE
    /\ connect_result' = "False"
    /\ connect_pc' = "done"
    /\ UNCHANGED <<session, lock, retries, attempt, attempts_made, calls>>
    /\ UNCHANGED <<calc_vars, handler_vars, chart_vars>>

NextConnect ==
    \/ \E r \in RetryValues : Call(r)
    \/ For
    \/ Acquire
    \/ \E ok \in BOOLEAN : CreateSession(ok)
    \/ \E r \in {"True", "False", "raise"} : Start(r)
    \/ \E r \in {"True", "False", "raise"} : OpenService(r)
    \/ \E ok \in BOOLEAN : Stop(ok)
    \/ Except
    \/ Exhausted

SpecConnect == InitConnect /\ [][NextConnect]_vars

\* Every call of the API returns or raises, and the caller keeps running.
SpecConnectFair == SpecConnect /\ WF_vars(NextConnect)

---------------------------------------------------------------------------
(* DataHandler.get_historical_data (data_handler.py).  The historical file *)
(* of the requested date is missing, unreadable (read_csv raises), empty   *)
(* (no rows) or holds a first row; a cell of the row is a number, NaN (an  *)
(* empty cell) or text.  A function returns a record, returns None or      *)
(* raises: [ret |-> "record", data |-> ...], [ret |-> "None"],             *)
(* [ret |-> "raise"].                                                      *)

MaxDate == 2  \* the dates requested range over 1..MaxDate

\* An analysis_date that is not a date object (strftime fails on it).
BadDate == -1

\* The float NaN pandas gives for an empty cell.
NaN == [t |-> "nan", n |-> 0, d |-> 1]

\* MOROCCAN_MARKET['main_index'].
MainIndex == Str(3)

ReturnsRecord(data) == [ret |-> "record", data |-> data]
ReturnsNone == [ret |-> "None"]
Raises == [ret |-> "raise"]

\* float(x) of a cell: a number or NaN converts, text raises ValueError.
FloatCell(x) == IF IsNum(x) \/ x = NaN THEN x ELSE Exc

\* int(x) of a cell: a number is truncated toward zero; NaN and text raise
\* ValueError.
IntCell(x) ==
    IF IsNum(x)
    THEN PyInt(IF x.n >= 0 THEN x.n \div x.d ELSE -((-x.n) \div x.d))
    ELSE Exc

\* row.get(key, default).
RowGet(row, key, default) == IF key \in DOMAIN row THEN row[key] ELSE default

\* The columns _load_historical_data converts with float and with int, and
\* the default of each.
FloatColumns ==
    [close |-> PyInt(0), open |-> PyInt(0), high |-> PyInt(0), low |-> PyInt(0),
     volume |-> PyInt(0), rsi |-> PyInt(50), macd |-> PyInt(0),
     macd_signal |-> PyInt(0), stochastic |-> PyInt(50), ma_20 |-> PyInt(0),
     ma_50 |-> PyInt(0), ma_200 |-> PyInt(0), volume_avg_20d |-> PyInt(0)]

IntColumns ==
    [advances |-> PyInt(0), declines |-> PyInt(0), unchanged |-> PyInt(0),
     total_issues |-> PyInt(0), new_highs |-> PyInt(0), new_lows |-> PyInt(0)]

\* _load_historical_data: the dict of converted columns.
Converted(row) ==
    [k \in DOMAIN FloatColumns |-> FloatCell(RowGet(row, k, FloatColumns[k]))]
    @@ [k \in DOMAIN IntColumns |-> IntCell(RowGet(row, k, IntColumns[k]))]

\* _load_historical_data: change_pct and change added to the converted
\* columns c.
WithChange(c, d) ==
    ReturnsRecord(Mapping(
        [date |-> d,
         change_pct |-> IF ~PyEq(c.open, PyInt(0))
                        THEN PyMul(PyDiv(PySub(c.close, c.open), c.open), PyInt(100))
                        ELSE PyInt(0),
         change |-> PySub(c.close, c.open)] @@ c))

\* _load_historical_data: the row as a market-data dict, or the exception
\* of a conversion.
ParseRow(c, d) ==
    IF \E k \in DOMAIN c : IsExc(c[k]) THEN Raises ELSE WithChange(c, d)

\* _load_historical_data: the body of the try block.
LoadBody(file, d) ==
    IF d = BadDate THEN Raises
    ELSE IF file.kind = "missing" THEN ReturnsNone
    ELSE IF file.kind = "unreadable" THEN Raises
    ELSE IF file.kind = "empty" THEN ReturnsNone
    ELSE ParseRow(Converted(file.row), d)

\* except Exception: return None.
NoneIfRaised(r) == IF r.ret = "raise" THEN ReturnsNone ELSE r

_load_historical_data(file, d) == NoneIfRaised(LoadBody(file, d))

\* _generate_synthetic_data: the minimal default data of the except branch.
DefaultData(d) == ReturnsRecord(Mapping(("date" :> d) @@ ("ticker" :> MainIndex) @@ FallbackRecord))

\* Mutant of _generate_synthetic_data: no except branch.
_generate_synthetic_data_unguarded(d, draw) ==
    IF d = BadDate THEN Raises
    ELSE ReturnsRecord(Mapping(("date" :> d) @@ ("ticker" :> MainIndex) @@ draw))

\* _generate_synthetic_data: the record drawn for the date, or the default
\* data when the try block raises (strftime on what is not a date).
_generate_synthetic_data(d, draw) ==
    IF d = BadDate THEN DefaultData(d)
    ELSE ReturnsRecord(Mapping(("date" :> d) @@ ("ticker" :> MainIndex) @@ draw))

\* get_historical_data: the try block after the date is settled: the
\* loaded record if there is one, else the synthetic one.
LoadedOr(loaded, d, draw) ==
    IF loaded.ret = "record" THEN loaded ELSE _generate_synthetic_data(d, draw)

\* get_historical_data: except Exception: the synthetic record.
SyntheticIfRaised(r, d, draw) ==
    IF r.ret = "raise" THEN _generate_synthetic_data(d, draw) ELSE r

\* analysis_date, or today's date when it is None.
DateOr(ad, clock) == IF ad = NoDate THEN clock.date ELSE ad

get_historical_data(file, ad, clock, draw) ==
    SyntheticIfRaised(
        LoadedOr(_load_historical_data(file, DateOr(ad, clock)), DateOr(ad, clock), draw),
        DateOr(ad, clock), draw)

\* The first rows the historical file can hold.
Rows ==
    {c @@ o @@ a :
        c \in Optional("close", {PyInt(13050), Str(1)}),
        o \in Optional("open", {PyInt(0), PyInt(12950), Str(1)}),
        a \in Optional("advances", {PyInt(400), Num(801, 2), NaN, Str(1)})}

Files ==
    {[kind |-> "missing"], [kind |-> "unreadable"], [kind |-> "empty"]}
    \cup {[kind |-> "rows", row |-> r] : r \in Rows}

\* What np.random can draw for a date.
Draws == {RallyRecord, SelloffRecord}

InitHistory ==
    /\ market_data = EmptyRecord
    /\ analysis_date \in {NoDate, BadDate} \cup 1..MaxDate
    /\ now = StartClock
    /\ result = NoResult
    /\ outcome = "pending"
    /\ faults = {}
    /\ LabelIdle
    /\ NewCalculator
    /\ NoCalls
    /\ NoClient
    /\ historical_file \in Files
    /\ historical_data = Pending
    /\ fig = Pending

GetHistoricalData(draw) ==
    /\ historical_data = Pending
    /\ historical_data' = get_historical_data(historical_file, analysis_date, now, draw)
    /\ UNCHANGED <<calc_vars, client_vars, chart_vars, historical_file>>

NextHistory == \E draw \in Draws : GetHistoricalData(draw)

SpecHistory == InitHistory /\ [][NextHistory]_vars

----------------------------------------------------------------------------
(* The gauge of the dashboard: create_gauge_chart is given the overall     *)
(* score and the label the calculator returned for it.  The chart reads    *)
(* the THRESHOLDS of config.py, the calculator its own self.thresholds.    *)
(* Of the figure the model keeps the value shown, the colour of the bar    *)
(* and the title.                                                          *)

COLORS ==
    [very_bullish |-> "#27ae60", bullish |-> "#2ecc71", neutral |-> "#f1c40f",
     bearish |-> "#e67e22", very_bearish |-> "#e74c3c"]

\* Mutant of create_gauge_chart: strict comparisons.
create_gauge_chart_strict(s, l) ==
    [value |-> s,
     gauge_color |->
        IF Gt(s, THRESHOLDS.very_bullish) THEN "#27ae60"
        ELSE IF Gt(s, THRESHOLDS.bullish) THEN "#2ecc71"
        ELSE IF Gt(s, THRESHOLDS.neutral) THEN "#f1c40f"
        ELSE IF Gt(s, THRESHOLDS.bearish) THEN "#e67e22"
        ELSE "#e74c3c",
     title |-> l]

create_gauge_chart(s, l) ==
    [value |-> s,
     gauge_color |->
        IF Ge(s, THRESHOLDS.very_bullish) THEN "#27ae60"
        ELSE IF Ge(s, THRESHOLDS.bullish) THEN "#2ecc71"
        ELSE IF Ge(s, THRESHOLDS.neutral) THEN "#f1c40f"
        ELSE IF Ge(s, THRESHOLDS.bearish) THEN "#e67e22"
        ELSE "#e74c3c",
     title |-> l]

(* Main.py: the chart of the score and label last returned.                *)
CreateGaugeChart ==
    /\ label # ""
    /\ fig = Pending
    /\ fig' = create_gauge_chart(score, label)
    /\ UNCHANGED <<calc_vars, client_vars, handler_vars>>

NextGauge ==
    \/ \E s \in LabelScores : GetSentimentLabel(s)
    \/ CreateGaugeChart

SpecGauge == InitLabel /\ [][NextGauge]_vars

---------------------------------------------------------------------------
(* Properties.                                                             *)

Returned == outcome = "returned"

Components ==
    {"breadth_score", "momentum_score", "trend_score", "volume_score"}

ResultKeys ==
    {"overall_score", "sentiment_label", "components", "technical_levels",
     "timestamp", "analysis_date", "confidence"}

InRange(x, lo, hi) == IsNum(x) /\ RGe(x, PyInt(lo)) /\ RLe(x, PyInt(hi))

\* clamp(x, -100, 100) on rationals.
Clamp100(x) ==
    IF RLt(x, PyInt(-100)) THEN PyInt(-100)
    ELSE IF RGt(x, PyInt(100)) THEN PyInt(100)
    ELSE x

\* 0.30*breadth + 0.25*momentum + 0.25*trend + 0.20*volume of a components
\* sub-record.
WeightedSum(c) ==
    RAdd(RAdd(RAdd(RMul(Num(30, 100), c.breadth_score),
                   RMul(Num(25, 100), c.momentum_score)),
              RMul(Num(25, 100), c.trend_score)),
         RMul(Num(20, 100), c.volume_score))

\* C1: after every call, each of the four sub-scores and the overall score
\* of the result is a number within [-100, 100].
C1_ScoresInRange ==
    Returned =>
        /\ InRange(result.overall_score, -100, 100)
        /\ \A k \in Components : InRange(result.components[k], -100, 100)

\* C1 witness: a call in which the final clamp of the breadth score acted
\* (advance_pct below 0.75 whose very_positive line exceeds 100) and the
\* overall score is not 0.
C1_Witness ==
    /\ Returned
    /\ faults = {}
    /\ result.components.breadth_score = PyInt(100)
    /\ DOMAIN market_data.items = {"advances", "declines", "unchanged"}
    /\ LET r == market_data.items
       IN  RLt(RMul(PyInt(4), r.advances),
               RMul(PyInt(3), RAdd(RAdd(r.advances, r.declines), r.unchanged)))
    /\ result.overall_score # PyInt(0)

\* C2: no call lets an exception escape, and every call returns a complete
\* result: the seven top-level keys, the four component scores and the
\* eight technical levels, with a numeric score, confidence and levels and
\* one of the five labels.
C2_NeverRaisesComplete ==
    /\ outcome \in {"pending", "returned"}
    /\ Returned =>
        /\ DOMAIN result = ResultKeys
        /\ DOMAIN result.components = Components
        /\ DOMAIN result.technical_levels = LevelKeys
        /\ IsNum(result.overall_score)
        /\ IsNum(result.confidence)
        /\ \A k \in Components : IsNum(result.components[k])
        /\ \A k \in LevelKeys : IsNum(result.technical_levels[k])
        /\ result.sentiment_label \in
              {"Very Bullish", "Bullish", "Neutral", "Bearish", "Very Bearish"}
        /\ result.timestamp = StartClock
        /\ result.analysis_date \in {1, 2}

\* C2 witness: calls that returned on a value that is not a mapping, and on
\* a record whose fields are all None.
C2_Witness ==
    /\ Returned
    /\ \/ ~market_data.mapping
       \/ /\ market_data.mapping
          /\ DOMAIN market_data.items = NamedFields
          /\ \A k \in NamedFields : market_data.items[k] = None
    /\ "technical_levels" \in faults

\* C3: the overall score of every result is the clamped weighted sum
\* 0.30/0.25/0.25/0.20 of the sub-scores returned in the same result.
C3_WeightedSum ==
    Returned =>
        result.overall_score = Clamp100(WeightedSum(result.components))

\* C3 witness: a result whose four sub-scores are nonzero and pairwise
\* different.
C3_Witness ==
    /\ Returned
    /\ \A k \in Components : result.components[k] # PyInt(0)
    /\ \A j, k \in Components :
          j # k => result.components[j] # result.components[k]

\* The label the thresholds 60 / 30 / -30 / -60 give a score.
LabelOf(x) ==
    IF RGe(x, PyInt(60)) THEN "Very Bullish"
    ELSE IF RGe(x, PyInt(30)) THEN "Bullish"
    ELSE IF RGe(x, PyInt(-30)) THEN "Neutral"
    ELSE IF RGe(x, PyInt(-60)) THEN "Bearish"
    ELSE "Very Bearish"

\* C4: the label returned for a score is that of the first of the thresholds
\* 60, 30, -30, -60 the score meets or exceeds, Very Bearish if none; a
\* score equal to a threshold gets the more bullish label.
C4_LabelByThreshold ==
    /\ label # "" => label = LabelOf(score)
    /\ prev_label # "" => prev_label = LabelOf(prev_score)
    /\ label # "" =>
        /\ score = PyInt(60) => label = "Very Bullish"
        /\ score = PyInt(30) => label = "Bullish"
        /\ score = PyInt(-30) => label = "Neutral"
        /\ score = PyInt(-60) => label = "Bearish"

\* C4 witness: a score exactly on the bullish threshold, labelled Bullish,
\* after a score just below it, labelled Neutral.
C4_Witness ==
    /\ score = PyInt(30)
    /\ label = "Bullish"
    /\ prev_score = PyInt(29)
    /\ prev_label = "Neutral"

\* Very bearish < bearish < neutral < bullish < very bullish.
Rank(l) ==
    CASE l = "Very Bearish" -> 1
      [] l = "Bearish"      -> 2
      [] l = "Neutral"      -> 3
      [] l = "Bullish"      -> 4
      [] l = "Very Bullish" -> 5

\* C5: of two scores, the larger never gets a strictly more bearish label.
C5_LabelMonotone ==
    (label # "" /\ prev_label # "") =>
        /\ RGt(score, prev_score) => Rank(label) >= Rank(prev_label)
        /\ RLt(score, prev_score) => Rank(label) <= Rank(prev_label)

\* C5 witness: two calls with different scores and different labels.
C5_Witness ==
    /\ label # ""
    /\ prev_label # ""
    /\ RGt(score, prev_score)
    /\ Rank(label) > Rank(prev_label)

\* The result _default_sentiment returns, timestamp aside.
IsDefault(r) ==
    /\ r.overall_score = PyInt(0)
    /\ r.sentiment_label = "Neutral"
    /\ \A k \in Components : r.components[k] = PyInt(0)
    /\ \A k \in LevelKeys : r.technical_levels[k] = PyInt(0)
    /\ r.confidence = PyInt(0)

SubCalculations == {"breadth", "momentum", "trend", "volume"}

\* C6 as stated: a fault that escapes the sub-calculations gives the
\* default result, and no call in which a calculation faulted returns a
\* confidence other than 0.0 together with a label other than Neutral.
C6_Original ==
    Returned =>
        /\ "calculate_sentiment" \in faults => IsDefault(result)
        /\ faults # {} =>
              ~(result.confidence # PyInt(0) /\ result.sentiment_label # "Neutral")

\* C6 amended: a fault that escapes the sub-calculations gives the default
\* result; but the faults of the sub-calculations, of the technical levels
\* and of the confidence estimator are absorbed where they occur, none
\* reaches the top level, and the call returns the ordinary result with 0
\* for each faulted sub-score and confidence 0.5 when the estimator faulted,
\* whatever the label is.
C6_FaultsAbsorbed ==
    Returned =>
        /\ "calculate_sentiment" \in faults => IsDefault(result)
        /\ "calculate_sentiment" \notin faults
        /\ "confidence" \in faults => result.confidence = Num(1, 2)
        /\ \A k \in SubCalculations :
              k \in faults =>
                  result.components[IF k = "breadth" THEN "breadth_score"
                                    ELSE IF k = "momentum" THEN "momentum_score"
                                    ELSE IF k = "trend" THEN "trend_score"
                                    ELSE "volume_score"] = PyInt(0)

\* C6 witness: a call in which the breadth calculation and the confidence
\* estimator faulted and which returned confidence 0.5 with a label other
\* than Neutral.
C6_Witness ==
    /\ Returned
    /\ {"breadth", "confidence"} \subseteq faults
    /\ result.confidence = Num(1, 2)
    /\ result.sentiment_label \in {"Bullish", "Very Bullish"}

\* C7: each sub-score of the result is 0 if its calculation faulted and is
\* otherwise what that calculation gives on the record by itself, whichever
\* other calculations faulted; so are the technical levels; the confidence
\* is 0.5 if the estimator faulted; and the overall score is the clamped
\* weighted sum of these sub-scores.
C7_FaultIsolation ==
    Returned =>
        LET c == result.components
            b == _calculate_breadth_sentiment(market_data)
            m == _calculate_momentum_sentiment(market_data)
            t == _calculate_trend_sentiment(market_data)
            v == _calculate_volume_sentiment(market_data)
        IN  /\ c.breadth_score  = IF "breadth" \in faults THEN PyInt(0) ELSE b.val
            /\ c.momentum_score = IF "momentum" \in faults THEN PyInt(0) ELSE m.val
            /\ c.trend_score    = IF "trend" \in faults THEN PyInt(0) ELSE t.val
            /\ c.volume_score   = IF "volume" \in faults THEN PyInt(0) ELSE v.val
            /\ ("breadth" \in faults) = IsExc(BreadthBody(market_data))
            /\ ("momentum" \in faults) = IsExc(MomentumBody(market_data))
            /\ ("trend" \in faults) = IsExc(TrendBody(market_data))
            /\ ("volume" \in faults) = IsExc(VolumeBody(market_data))
            /\ result.technical_levels =
                  IF "technical_levels" \in faults THEN ZeroLevels
                  ELSE LevelsBody(market_data)
            /\ "confidence" \in faults => result.confidence = Num(1, 2)
            /\ "confidence" \notin faults =>
                  result.confidence = ConfidenceBody(market_data)
            /\ result.overall_score = Clamp100(WeightedSum(c))
            /\ result.sentiment_label = LabelOf(result.overall_score)

\* C7 witness: a call in which the momentum calculation alone faulted: its
\* sub-score is 0, the other three are not, and neither are the levels.
C7_Witness ==
    /\ Returned
    /\ faults = {"momentum"}
    /\ result.components.momentum_score = PyInt(0)
    /\ result.components.breadth_score # PyInt(0)
    /\ result.components.trend_score # PyInt(0)
    /\ result.components.volume_score # PyInt(0)
    /\ result.technical_levels.pivot_point # PyInt(0)
    /\ result.overall_score # PyInt(0)

\* A record holding any subset of the named fields, each with a
\* non-negative number.
NonNegative(md) ==
    /\ md.mapping
    /\ DOMAIN md.items \subseteq NamedFields
    /\ \A k \in DOMAIN md.items : IsNum(md.items[k]) /\ md.items[k].n >= 0

\* The field's value, or the default when the field is absent.
Field(md, k, default) == IF k \in DOMAIN md.items THEN md.items[k] ELSE default

\* The record with its absent counts, prices, volume and change_pct set to
\* 0, its absent rsi to 50 and its absent moving averages to close.
\* (volume_avg_20d is left as it is.)
Completed(md) ==
    LET close == Field(md, "close", PyInt(0))
    IN  Mapping(md.items @@
                [advances |-> PyInt(0), declines |-> PyInt(0),
                 unchanged |-> PyInt(0), new_highs |-> PyInt(0),
                 new_lows |-> PyInt(0), change_pct |-> PyInt(0),
                 open |-> PyInt(0), high |-> PyInt(0), low |-> PyInt(0),
                 close |-> close, volume |-> PyInt(0), rsi |-> PyInt(50),
                 ma_20 |-> close, ma_50 |-> close, ma_200 |-> close])

\* C8: on a record holding any subset of the named fields with non-negative
\* numbers, no calculation takes its fault path, and the sub-scores and the
\* technical levels are those of the record with each absent field set to
\* its default.
C8_AbsenceNoFault ==
    (Returned /\ NonNegative(market_data)) =>
        LET full == Completed(market_data)
        IN  /\ faults = {}
            /\ result.components.breadth_score  = BreadthBody(full)
            /\ result.components.momentum_score = MomentumBody(full)
            /\ result.components.trend_score    = TrendBody(full)
            /\ result.components.volume_score   = VolumeBody(full)
            /\ result.technical_levels          = LevelsBody(full)

\* C8 witness: a call on a record that has close, advances and volume and
\* lacks rsi, the moving averages, declines and change_pct.
C8_Witness ==
    /\ Returned
    /\ NonNegative(market_data)
    /\ {"close", "advances"} \subseteq DOMAIN market_data.items
    /\ DOMAIN market_data.items \cap
          {"rsi", "ma_20", "ma_50", "ma_200", "declines", "change_pct"} = {}
    /\ faults = {}
    /\ result.technical_levels.ma_20 = market_data.items["close"]
    /\ result.technical_levels.ma_20 # PyInt(0)

\* |x - y| < eps on rationals.
Near(x, y, eps) == RLt(RSub(x, y), eps) /\ RLt(RSub(y, x), eps)

\* The breadth score of p = advances/total as the documentation gives it.
BreadthOf(p) ==
    Clamp100(
        IF RGe(p, Num(75, 100)) THEN RAdd(PyInt(80), RMul(RSub(p, Num(75, 100)), PyInt(200)))
        ELSE IF RGe(p, Num(60, 100)) THEN RAdd(PyInt(60), RMul(RSub(p, Num(60, 100)), PyInt(400)))
        ELSE IF RGe(p, Num(55, 100)) THEN RAdd(PyInt(30), RMul(RSub(p, Num(55, 100)), PyInt(200)))
        ELSE IF RGe(p, Num(45, 100)) THEN RMul(RSub(p, Num(45, 100)), PyInt(150))
        ELSE IF RGe(p, Num(40, 100)) THEN RAdd(PyInt(-30), RMul(RSub(p, Num(40, 100)), PyInt(200)))
        ELSE IF RGe(p, Num(25, 100)) THEN RAdd(PyInt(-60), RMul(RSub(p, Num(25, 100)), PyInt(400)))
        ELSE RAdd(PyInt(-100), RMul(p, PyInt(500))))

\* The record's counts are non-negative numbers (an absent count is 0).
CountsNonNegative(md) ==
    /\ md.mapping
    /\ \A k \in {"advances", "declines", "unchanged"} :
          LET x == Field(md, k, PyInt(0)) IN IsNum(x) /\ x.n >= 0

\* C9: on a record with non-negative counts the breadth score is 0 when
\* total = advances + declines + unchanged is 0, and otherwise the clamped
\* seven-bucket piecewise-linear function of advances/total; 400/250/50
\* scores about 34.3.
C9_BreadthScore ==
    (Returned /\ CountsNonNegative(market_data)) =>
        LET a == Field(market_data, "advances", PyInt(0))
            d == Field(market_data, "declines", PyInt(0))
            u == Field(market_data, "unchanged", PyInt(0))
            total == RAdd(RAdd(a, d), u)
            got == result.components.breadth_score
        IN  /\ "breadth" \notin faults
            /\ total = PyInt(0) => got = PyInt(0)
            /\ total # PyInt(0) => got = BreadthOf(RDiv(a, total))
            /\ (a = PyInt(400) /\ d = PyInt(250) /\ u = PyInt(50)) =>
                  Near(got, Num(343, 10), Num(5, 100))

\* C9 witness: the call on the documented example 400/250/50.
C9_Witness ==
    /\ Returned
    /\ CountsNonNegative(market_data)
    /\ Field(market_data, "advances", PyInt(0)) = PyInt(400)
    /\ Field(market_data, "declines", PyInt(0)) = PyInt(250)
    /\ Field(market_data, "unchanged", PyInt(0)) = PyInt(50)
    /\ result.components.breadth_score = Num(240, 7)

\* The price component of change_pct as the documentation gives it.
PriceOf(c) ==
    IF RLt(Num(Abs(c.n), c.d), Num(1, 2)) THEN RMul(c, PyInt(200))
    ELSE Clamp100(RMul(c, PyInt(20)))

\* The extremes component of new_highs / (new_highs + new_lows + 1).
ExtremesOf(r) ==
    IF RGt(r, Num(7, 10)) THEN PyInt(80)
    ELSE IF RGt(r, Num(5, 10)) THEN PyInt(30)
    ELSE IF RGt(r, Num(3, 10)) THEN PyInt(-30)
    ELSE PyInt(-80)

\* change_pct, new_highs and new_lows are numbers (0 when absent) and
\* new_highs + new_lows + 1 is not 0, so that the formula is defined.
MomentumDefined(md) ==
    /\ md.mapping
    /\ \A k \in {"change_pct", "new_highs", "new_lows"} :
          IsNum(Field(md, k, PyInt(0)))
    /\ RAdd(RAdd(Field(md, "new_highs", PyInt(0)), Field(md, "new_lows", PyInt(0))),
            PyInt(1)) # PyInt(0)

\* C10: the momentum score is clamp(0.6*price_score + 0.4*extremes_score)
\* with the two-regime price score and the four-step extremes score; for
\* change_pct 0.772 the price score is about 15.4.
C10_MomentumScore ==
    (Returned /\ MomentumDefined(market_data)) =>
        LET c == Field(market_data, "change_pct", PyInt(0))
            h == Field(market_data, "new_highs", PyInt(0))
            l == Field(market_data, "new_lows", PyInt(0))
            ratio == RDiv(h, RAdd(RAdd(h, l), PyInt(1)))
            got == result.components.momentum_score
        IN  /\ "momentum" \notin faults
            /\ got = Clamp100(RAdd(RMul(Num(6, 10), PriceOf(c)),
                                   RMul(Num(4, 10), ExtremesOf(ratio))))
            /\ (c = Num(772, 1000) /\ h = PyInt(0)) =>
                  \* price_score = (momentum + 0.4*80) / 0.6
                  Near(RDiv(RAdd(got, PyInt(32)), Num(6, 10)),
                       Num(154, 10), Num(5, 100))

\* C10 witness: the call on the documented example, change_pct 0.772 with
\* no new highs: momentum 0.6*15.44 - 32.
C10_Witness ==
    /\ Returned
    /\ MomentumDefined(market_data)
    /\ Field(market_data, "change_pct", PyInt(0)) = Num(772, 1000)
    /\ result.components.momentum_score = Num(-22736, 1000)

\* close, rsi and the three moving averages are numbers (an absent close is
\* 0, an absent rsi 50, an absent average is close).
TrendDefined(md) ==
    /\ md.mapping
    /\ IsNum(Field(md, "close", PyInt(0)))
    /\ IsNum(Field(md, "rsi", PyInt(50)))
    /\ \A k \in {"ma_20", "ma_50", "ma_200"} :
          IsNum(Field(md, k, Field(md, "close", PyInt(0))))

\* The number of the averages ma_20, ma_50, ma_200 of the record that close
\* strictly exceeds; an absent average equals close.
Exceeded(md) ==
    LET close == Field(md, "close", PyInt(0))
    IN  Cardinality({k \in {"ma_20", "ma_50", "ma_200"} :
                        RGt(close, Field(md, k, close))})

\* ma_pct of k exceeded averages: (30*k)/(k*30)*100, and 0 when k = 0.
MaPctOf(k) == IF k > 0 THEN RMul(Num(30 * k, k * 30), PyInt(100)) ELSE PyInt(0)

\* The RSI component as the documentation gives it.
RsiOf(rsi) ==
    IF RGt(rsi, PyInt(70)) THEN RAdd(PyInt(-30), RMul(RSub(PyInt(100), rsi), PyInt(3)))
    ELSE IF RLt(rsi, PyInt(30)) THEN RAdd(PyInt(30), RMul(rsi, Num(27, 10)))
    ELSE RMul(RSub(rsi, PyInt(50)), Num(12, 10))

\* C11: on a record whose close, rsi and averages are numbers the trend
\* calculation takes no fault path (no division by zero when no average is
\* exceeded) and the trend score is clamp(0.6*ma_pct + 0.4*rsi_score), where
\* ma_pct is (30k)/(30k)*100 for k > 0 exceeded averages and 0 for k = 0,
\* an absent average never being counted.
C11_TrendScore ==
    (Returned /\ TrendDefined(market_data)) =>
        LET k == Exceeded(market_data)
            rsi == Field(market_data, "rsi", PyInt(50))
        IN  /\ "trend" \notin faults
            /\ k <= Cardinality(DOMAIN market_data.items \cap {"ma_20", "ma_50", "ma_200"})
            /\ result.components.trend_score =
                  Clamp100(RAdd(RMul(Num(6, 10), MaPctOf(k)),
                                RMul(Num(4, 10), RsiOf(rsi))))

\* C11 witness: a call with close 100 above ma_20 = 90, below ma_200 = 110,
\* no ma_50 and rsi 50: one average counted, trend score 60.
C11_Witness ==
    /\ Returned
    /\ TrendDefined(market_data)
    /\ "ma_50" \notin DOMAIN market_data.items
    /\ Field(market_data, "close", PyInt(0)) = PyInt(100)
    /\ Field(market_data, "ma_20", PyInt(0)) = PyInt(90)
    /\ Field(market_data, "ma_200", PyInt(0)) = PyInt(110)
    /\ Field(market_data, "rsi", PyInt(50)) = PyInt(50)
    /\ Exceeded(market_data) = 1
    /\ result.components.trend_score = PyInt(60)

\* The trend score of the result was not cut by the final clamp.
TrendUnclamped ==
    /\ RGt(result.components.trend_score, PyInt(-100))
    /\ RLt(result.components.trend_score, PyInt(100))

\* The RSI component the trend score of the result contains:
\* (trend_score - 0.6*ma_pct) / 0.4.
RsiComponent ==
    RDiv(RSub(result.components.trend_score,
              RMul(Num(6, 10), MaPctOf(Exceeded(market_data)))),
         Num(4, 10))

VolumeAvgOf(md) == Field(md, "volume_avg_20d", Field(md, "volume", PyInt(0)))

\* volume, volume_avg_20d and change_pct are numbers (0 when absent, the
\* average being volume when absent).
VolumeDefined(md) ==
    /\ md.mapping
    /\ IsNum(Field(md, "volume", PyInt(0)))
    /\ IsNum(VolumeAvgOf(md))
    /\ IsNum(Field(md, "change_pct", PyInt(0)))

\* One of three scores by the sign of change_pct.
SignOf(c, up, down, flat) ==
    IF RGt(c, PyInt(0)) THEN PyInt(up)
    ELSE IF RLt(c, PyInt(0)) THEN PyInt(down)
    ELSE PyInt(flat)

\* The volume score of the ratio r and change_pct c as the documentation
\* gives it.
VolumeScoreOf(r, c) ==
    IF RGt(r, Num(15, 10)) THEN SignOf(c, 70, -70, 30)
    ELSE IF RGt(r, PyInt(1)) THEN SignOf(c, 40, -40, 0)
    ELSE IF RGt(r, Num(7, 10)) THEN SignOf(c, 20, -20, -10)
    ELSE PyInt(-40)

\* C13: for volume_avg_20d # 0 the volume score is that of the bucket of
\* r = volume/volume_avg_20d (above 1.5, above 1.0, above 0.7, otherwise -40)
\* and of the sign of change_pct; r = 1.5, r = 1.0 and r = 0.7 fall in the
\* lower bucket.
C13_VolumeScore ==
    (Returned /\ VolumeDefined(market_data) /\ VolumeAvgOf(market_data) # PyInt(0)) =>
        LET r == RDiv(Field(market_data, "volume", PyInt(0)), VolumeAvgOf(market_data))
            c == Field(market_data, "change_pct", PyInt(0))
            got == result.components.volume_score
        IN  /\ "volume" \notin faults
            /\ got = VolumeScoreOf(r, c)
            /\ r = Num(15, 10) => got = SignOf(c, 40, -40, 0)
            /\ r = PyInt(1)    => got = SignOf(c, 20, -20, -10)
            /\ r = Num(7, 10)  => got = PyInt(-40)

\* C13 witness: a call with volume exactly 1.5 times its average on a
\* rising day: the score of the bucket below, 40.
C13_Witness ==
    /\ Returned
    /\ VolumeDefined(market_data)
    /\ "volume_avg_20d" \in DOMAIN market_data.items
    /\ VolumeAvgOf(market_data) # PyInt(0)
    /\ RDiv(Field(market_data, "volume", PyInt(0)), VolumeAvgOf(market_data)) = Num(15, 10)
    /\ RGt(Field(market_data, "change_pct", PyInt(0)), PyInt(0))
    /\ result.components.volume_score = PyInt(40)

\* C14: whenever volume_avg_20d is 0 (present and zero, or absent while
\* volume is 0 or absent) the volume score is 0 and the volume calculation
\* takes no fault path, whatever volume and change_pct hold.
C14_DegenerateVolume ==
    (/\ Returned
     /\ market_data.mapping
     /\ IsNum(VolumeAvgOf(market_data))
     /\ REq(VolumeAvgOf(market_data), PyInt(0))) =>
        /\ result.components.volume_score = PyInt(0)
        /\ "volume" \notin faults

\* C14 witness: a call with volume_avg_20d present and 0, a nonzero volume
\* and a rising price, which would score 20 at ratio 1.
C14_Witness ==
    /\ Returned
    /\ market_data.mapping
    /\ "volume_avg_20d" \in DOMAIN market_data.items
    /\ market_data.items["volume_avg_20d"] = PyInt(0)
    /\ RGt(Field(market_data, "volume", PyInt(0)), PyInt(0))
    /\ RGt(Field(market_data, "change_pct", PyInt(0)), PyInt(0))
    /\ result.components.volume_score = PyInt(0)
    /\ "volume" \notin faults

\* close, high, low and the three moving averages are numbers (0 for an
\* absent price, close for an absent average).
LevelsDefined(md) ==
    /\ md.mapping
    /\ \A k \in {"close", "high", "low"} : IsNum(Field(md, k, PyInt(0)))
    /\ \A k \in {"ma_20", "ma_50", "ma_200"} :
          IsNum(Field(md, k, Field(md, "close", PyInt(0))))

\* close > 0, high > 0 and low > 0.
PricesPositive(md) ==
    \A k \in {"close", "high", "low"} : RGt(Field(md, k, PyInt(0)), PyInt(0))

\* C15: with close, high and low positive the technical levels are
\* pivot = (high+low+close)/3, R1 = 2*pivot-low, S1 = 2*pivot-high,
\* R2 = pivot+(high-low), S2 = pivot-(high-low), and each moving average
\* of the output is the input value, or close when the field is absent;
\* 13100/12900/13050 gives 13016.7, 13133.3, 12933.3, 13216.7, 12816.7.
C15_TechnicalLevels ==
    (Returned /\ LevelsDefined(market_data) /\ PricesPositive(market_data)) =>
        LET close == Field(market_data, "close", PyInt(0))
            high  == Field(market_data, "high", PyInt(0))
            low   == Field(market_data, "low", PyInt(0))
            pivot == RDiv(RAdd(RAdd(high, low), close), PyInt(3))
            tl    == result.technical_levels
        IN  /\ "technical_levels" \notin faults
            /\ tl.pivot_point   = pivot
            /\ tl.resistance_r1 = RSub(RMul(PyInt(2), pivot), low)
            /\ tl.support_s1    = RSub(RMul(PyInt(2), pivot), high)
            /\ tl.resistance_r2 = RAdd(pivot, RSub(high, low))
            /\ tl.support_s2    = RSub(pivot, RSub(high, low))
            /\ \A k \in {"ma_20", "ma_50", "ma_200"} :
                  tl[k] = Field(market_data, k, close)
            /\ (high = PyInt(13100) /\ low = PyInt(12900) /\ close = PyInt(13050)) =>
                  /\ Near(tl.pivot_point, Num(130167, 10), Num(5, 100))
                  /\ Near(tl.resistance_r1, Num(131333, 10), Num(5, 100))
                  /\ Near(tl.support_s1, Num(129333, 10), Num(5, 100))
                  /\ Near(tl.resistance_r2, Num(132167, 10), Num(5, 100))
                  /\ Near(tl.support_s2, Num(128167, 10), Num(5, 100))

\* C15 witness: the call on the documented example, a record holding only
\* high 13100, low 12900 and close 13050: pivot 39050/3 and the absent
\* averages equal to close.
C15_Witness ==
    /\ Returned
    /\ DOMAIN market_data.items = {"high", "low", "close"}
    /\ market_data.items["high"] = PyInt(13100)
    /\ market_data.items["low"] = PyInt(12900)
    /\ market_data.items["close"] = PyInt(13050)
    /\ result.technical_levels.pivot_point = Num(39050, 3)
    /\ result.technical_levels.resistance_r1 = Num(39400, 3)
    /\ result.technical_levels.ma_50 = PyInt(13050)

\* C16: whenever close, high or low is 0, absent or otherwise not positive,
\* the technical levels calculation takes no fault path and pivot_point,
\* resistance_r1, resistance_r2, support_s1 and support_s2 all equal close.
C16_LevelsCollapse ==
    (Returned /\ LevelsDefined(market_data) /\ ~PricesPositive(market_data)) =>
        /\ "technical_levels" \notin faults
        /\ \A k \in {"pivot_point", "resistance_r1", "resistance_r2",
                     "support_s1", "support_s2"} :
              result.technical_levels[k] = Field(market_data, "close", PyInt(0))

\* C16 witness: a call with close and low positive and high 0: the five
\* levels collapse to the nonzero close.
C16_Witness ==
    /\ Returned
    /\ LevelsDefined(market_data)
    /\ RGt(Field(market_data, "close", PyInt(0)), PyInt(0))
    /\ RGt(Field(market_data, "low", PyInt(0)), PyInt(0))
    /\ "high" \in DOMAIN market_data.items
    /\ market_data.items["high"] = PyInt(0)
    /\ result.technical_levels.pivot_point = market_data.items["close"]
    /\ result.technical_levels.support_s2 = market_data.items["close"]
    /\ "technical_levels" \notin faults

\* The eight indicators the confidence counts.
Indicators ==
    {"advances", "change_pct", "rsi", "macd", "volume", "ma_20", "ma_50", "ma_200"}

\* The field is present and its value is not zero.
NonZero(md, k) ==
    LET x == Field(md, k, PyInt(0)) IN ~(IsNum(x) /\ REq(x, PyInt(0)))

\* The field is present with a number above zero.
Positive(md, k) ==
    LET x == Field(md, k, PyInt(0)) IN IsNum(x) /\ RGt(x, PyInt(0))

\* C17 as stated: on a record whose indicators are numbers, confidence is
\* count/8 within [0, 1], count being the number of the eight indicators
\* that are present and nonzero, advances alone counting only when > 0.
C17_Original ==
    (/\ Returned
     /\ market_data.mapping
     /\ \A k \in Indicators : IsNum(Field(market_data, k, PyInt(0)))) =>
        LET count == Cardinality({k \in Indicators :
                        IF k = "advances" THEN Positive(market_data, k)
                        ELSE NonZero(market_data, k)})
        IN  /\ result.confidence = Num(count, 8)
            /\ InRange(result.confidence, 0, 1)

\* C17, amended: on a record whose advances and volume are numbers (or
\* absent), the confidence estimator takes no fault path and confidence is
\* count/8 within [0, 1], count being the number of the eight indicators
\* that are present and nonzero, advances and volume counting only when
\* > 0; no other field enters the count.
C17_Confidence ==
    (/\ Returned
     /\ market_data.mapping
     /\ IsNum(Field(market_data, "advances", PyInt(0)))
     /\ IsNum(Field(market_data, "volume", PyInt(0)))) =>
        LET count == Cardinality({k \in Indicators :
                        IF k \in {"advances", "volume"} THEN Positive(market_data, k)
                        ELSE NonZero(market_data, k)})
        IN  /\ "confidence" \notin faults
            /\ result.confidence = Num(count, 8)
            /\ InRange(result.confidence, 0, 1)

\* C17 witness: a call on a record with a negative volume, macd 0 and the
\* six other indicators positive, and with fields outside the eight:
\* confidence 6/8.
C17_Witness ==
    /\ Returned
    /\ market_data.mapping
    /\ Indicators \cup {"declines", "stochastic", "macd_signal"}
          \subseteq DOMAIN market_data.items
    /\ \A k \in Indicators : IsNum(market_data.items[k])
    /\ RLt(market_data.items["volume"], PyInt(0))
    /\ market_data.items["macd"] = PyInt(0)
    /\ \A k \in Indicators \ {"volume", "macd"} : Positive(market_data, k)
    /\ result.confidence = Num(6, 8)

\* The scores, label, technical levels and confidence of a result.
Scores(r) ==
    [overall_score |-> r.overall_score, sentiment_label |-> r.sentiment_label,
     components |-> r.components, technical_levels |-> r.technical_levels,
     confidence |-> r.confidence]

\* What the call on md returns when it runs alone.
Alone(md) == calculate_sentiment(md, NoDate, StartClock).result

\* Every concurrent call that has returned returned the scores, label,
\* levels and confidence of the same call run alone.
SameAsAlone ==
    \A t \in DOMAIN pc :
        pc[t] = "done" => Scores(returned[t]) = Scores(Alone(args[t]))

\* A step changes neither an input record nor the calculator's weights and
\* thresholds.
InputsUntouched ==
    /\ args' = args
    /\ weights' = weights
    /\ thresholds' = thresholds

\* C18: under every interleaving of concurrent calls on one calculator, no
\* step modifies an input record or the weights and thresholds, and each
\* call returns the scores, label, technical levels and confidence of the
\* same call run alone.
C18_PureConcurrent == []SameAsAlone /\ [][InputsUntouched]_vars

\* C18 witness: two calls on different records have interleaved (the second
\* to start returned first) and both have returned, with different scores.
C18_Witness ==
    /\ DOMAIN pc = Threads
    /\ pc[1] = "done" /\ pc[2] = "done"
    /\ args[1] # args[2]
    /\ returned[1].timestamp.time > returned[2].timestamp.time
    /\ returned[1].overall_score # returned[2].overall_score
    /\ Scores(returned[1]) = Scores(Alone(args[1]))

\* The values of the record c at the keys of the sequence, in that order,
\* are strictly decreasing and lie within [lo, hi].
Decreasing(c, keys, lo, hi) ==
    /\ DOMAIN c = {keys[i] : i \in 1..Len(keys)}
    /\ \A i \in 1..Len(keys) : InRange(c[keys[i]], lo, hi)
    /\ \A i \in 1..(Len(keys) - 1) : RGt(c[keys[i]], c[keys[i + 1]])

\* C19: in every state, before and after every operation, the calculator
\* holds the shipped weights and thresholds; the four weights sum to 1; the
\* five sentiment thresholds are strictly decreasing within [-100, 100];
\* the seven breadth thresholds are strictly decreasing within [0, 1].
C19_ConfigInvariants ==
    /\ weights = SENTIMENT_WEIGHTS
    /\ thresholds = THRESHOLDS
    /\ DOMAIN weights = {"breadth", "momentum", "trend", "volume"}
    /\ RAdd(RAdd(RAdd(weights.breadth, weights.momentum), weights.trend),
            weights.volume) = PyInt(1)
    /\ Decreasing(thresholds,
                  <<"very_bullish", "bullish", "neutral", "bearish", "very_bearish">>,
                  -100, 100)
    /\ Decreasing(BREADTH_THRESHOLDS,
                  <<"extremely_positive", "very_positive", "positive", "neutral",
                    "negative", "very_negative", "extremely_negative">>,
                  0, 1)

\* C19 witness: a call has returned a non-neutral result with a nonzero
\* breadth score, having used the weights, the thresholds and the breadth
\* thresholds, and the calculator still holds the shipped configuration.
C19_Witness ==
    /\ Returned
    /\ result.components.breadth_score # PyInt(0)
    /\ result.overall_score # PyInt(0)
    /\ result.sentiment_label # SENTIMENT_LABELS.neutral
    /\ weights = SENTIMENT_WEIGHTS
    /\ thresholds = THRESHOLDS

\* C20 as stated: for every rsi in (70, 100] the RSI component of the trend
\* score lies between -90 and -30.
C20_Original ==
    (/\ Returned
     /\ TrendDefined(market_data)
     /\ TrendUnclamped
     /\ RGt(Field(market_data, "rsi", PyInt(50)), PyInt(70))
     /\ RLe(Field(market_data, "rsi", PyInt(50)), PyInt(100))) =>
        InRange(RsiComponent, -90, -30)

\* The number of attempts range(retries) allows.
Allowed == IF retries > 0 THEN retries ELSE 0

\* What holds at every point of a connect call: at most `retries` attempts
\* are begun; the lock is held only inside an attempt; while the call runs
\* it has returned nothing; it returns True only from an attempt in which
\* start and openService both succeeded, with connected = True; it returns
\* False only after all the attempts failed, with connected = False.
ConnectSafe ==
    /\ attempts_made <= Allowed
    /\ lock = "held" <=> connect_pc \in {"session", "start", "open", "stop"}
    /\ connect_pc \notin {"idle", "done"} => connect_result = "none"
    /\ (connect_pc = "done" /\ connect_result = "True") =>
          /\ connected
          /\ session = "opened"
          /\ attempts_made >= 1
          /\ attempt = attempts_made - 1
    /\ (connect_pc = "done" /\ connect_result # "True") =>
          /\ connect_result = "False"
          /\ ~connected
          /\ attempts_made = Allowed
          /\ ~HasNext(attempt, retries)

\* C21: connect(retries) makes at most `retries` attempts, returns True with
\* connected = True from the first attempt in which start and openService
\* both succeed, returns False with connected = False when every attempt
\* fails, releases the lock after every attempt, and always terminates.
C21_Connect ==
    /\ []ConnectSafe
    /\ (connect_pc = "for") ~> (connect_pc = "done")

\* C21 witness: a connect(3) call whose first two attempts failed and whose
\* third succeeded: it returned True, connected, the lock free.
C21_Witness ==
    /\ connect_pc = "done"
    /\ retries = 3
    /\ attempts_made = 3
    /\ connect_result = "True"
    /\ connected
    /\ lock = "free"

\* The date the caller asked for: analysis_date, or today when it is None.
RequestedDate == IF analysis_date = NoDate THEN now.date ELSE analysis_date

\* The historical file exists, has a first row, and every cell of the row
\* converts: numbers (or NaN) in the float columns, numbers in the int
\* columns; and the date names a file.
Parses ==
    /\ analysis_date # BadDate
    /\ historical_file.kind = "rows"
    /\ \A k \in DOMAIN historical_file.row :
          LET x == historical_file.row[k]
          IN  IF k \in DOMAIN IntColumns THEN IsNum(x) ELSE IsNum(x) \/ x = NaN

\* C22: get_historical_data always returns a market-data record, never None
\* and never an exception, for the date asked for: the record loaded from
\* the historical file when the file exists, is not empty and parses, and
\* otherwise a synthetic record.
C22_AlwaysARecord ==
    historical_data # Pending =>
        /\ historical_data.ret = "record"
        /\ historical_data.data.mapping
        /\ ReadFields \subseteq DOMAIN historical_data.data.items
        /\ historical_data.data.items["date"] = RequestedDate
        /\ LET items == historical_data.data.items
           IN  IF Parses
               THEN /\ "ticker" \notin DOMAIN items
                    /\ \A k \in DOMAIN historical_file.row \cap DOMAIN FloatColumns :
                          items[k] = historical_file.row[k]
                    /\ "close" \notin DOMAIN historical_file.row => items["close"] = PyInt(0)
                    /\ items["rsi"] = PyInt(50)
               ELSE /\ "ticker" \in DOMAIN items
                    /\ Keep(items, NamedFields) \in Draws \cup {FallbackRecord}

\* C22 witness: the file of date 2 exists and has a row whose advances cell
\* is text, so the row does not parse: a synthetic record for date 2 came
\* back.
C22_Witness ==
    /\ historical_data # Pending
    /\ analysis_date = 2
    /\ historical_file.kind = "rows"
    /\ "advances" \in DOMAIN historical_file.row
    /\ IsStr(historical_file.row["advances"])
    /\ "close" \in DOMAIN historical_file.row
    /\ IsNum(historical_file.row["close"])
    /\ historical_data.ret = "record"
    /\ "ticker" \in DOMAIN historical_data.data.items
    /\ historical_data.data.items["date"] = 2

\* A valid record: every field read that is present holds a number, the
\* counts and the volumes are not negative, and rsi lies within [0, 100].
Valid(md) ==
    /\ md.mapping
    /\ \A k \in DOMAIN md.items \cap ReadFields : IsNum(md.items[k])
    /\ \A k \in DOMAIN md.items \cap
                {"advances", "declines", "unchanged", "new_highs", "new_lows",
                 "volume", "volume_avg_20d"} : md.items[k].n >= 0
    /\ "rsi" \in DOMAIN md.items => InRange(md.items["rsi"], 0, 100)

\* C23: on every valid record the weighted sum of the sub-scores lies in
\* [-70, 92], so the overall score is the weighted sum itself, not cut by
\* the clamp; the momentum score lies in [-92, 92] and the volume score in
\* [-70, 70].
C23_ClampNeverActs ==
    (Returned /\ Valid(market_data)) =>
        /\ InRange(WeightedSum(result.components), -70, 92)
        /\ result.overall_score = WeightedSum(result.components)
        /\ InRange(result.components.momentum_score, -92, 92)
        /\ InRange(result.components.volume_score, -70, 70)

\* C23 witness: a call on a valid record with every sub-score at its upper
\* end (breadth 100, momentum 92, trend 100, volume 70): overall score 92.
C23_Witness ==
    /\ Returned
    /\ Valid(market_data)
    /\ result.components.breadth_score = PyInt(100)
    /\ result.components.momentum_score = PyInt(92)
    /\ result.components.trend_score = PyInt(100)
    /\ result.components.volume_score = PyInt(70)
    /\ result.overall_score = PyInt(92)

\* rsi of the record, 50 when absent, is a number within [0, 100].
RsiInRange(md) ==
    /\ md.mapping
    /\ IsNum(Field(md, "rsi", PyInt(50)))
    /\ InRange(Field(md, "rsi", PyInt(50)), 0, 100)

\* The moving-average component the trend score of the result contains:
\* (trend_score - 0.4*rsi_score) / 0.6.
MaComponent ==
    RDiv(RSub(result.components.trend_score,
              RMul(Num(4, 10), RsiOf(Field(market_data, "rsi", PyInt(50))))),
         Num(6, 10))

C25_MaAllOrNothing ==
    (Returned /\ TrendDefined(market_data) /\ TrendUnclamped) =>
        /\ MaComponent \in {PyInt(0), PyInt(100)}
        /\ MaComponent = PyInt(100) <=> Exceeded(market_data) > 0

\* C25 witness: a call in which close exceeds exactly one of the three
\* averages and the moving-average component is 100.
C25_Witness ==
    /\ Returned
    /\ TrendDefined(market_data)
    /\ TrendUnclamped
    /\ Exceeded(market_data) = 1
    /\ MaComponent = PyInt(100)

\* advances + declines + unchanged of a record of BreadthRecords.
TotalOf(md) ==
    md.items["advances"].n + md.items["declines"].n + md.items["unchanged"].n

\* C26 as stated: of two records with non-negative counts and the same
\* total advances + declines + unchanged > 0, the one with more advances
\* never has the lower breadth score.
C26_Original ==
    (Returned /\ market_data \in BreadthRecords /\ TotalOf(market_data) > 0) =>
        \A other \in BreadthRecords :
            (/\ TotalOf(other) = TotalOf(market_data)
             /\ other.items["advances"].n >= market_data.items["advances"].n) =>
                RGe(_calculate_breadth_sentiment(other).val,
                    result.components.breadth_score)

\* 0 < low <= close <= high.
WithinRange(md) ==
    /\ RGt(Field(md, "low", PyInt(0)), PyInt(0))
    /\ RLe(Field(md, "low", PyInt(0)), Field(md, "close", PyInt(0)))
    /\ RLe(Field(md, "close", PyInt(0)), Field(md, "high", PyInt(0)))

C28_EmptyRecord ==
    (Returned /\ market_data = EmptyRecord) =>
        /\ faults = {}
        /\ result.components.breadth_score = PyInt(0)
        /\ result.components.momentum_score = PyInt(-32)
        /\ result.components.trend_score = PyInt(0)
        /\ result.components.volume_score = PyInt(0)
        /\ result.overall_score = PyInt(-8)
        /\ result.sentiment_label = SENTIMENT_LABELS.neutral
        /\ result.confidence = PyInt(0)
        /\ \A k \in LevelKeys : result.technical_levels[k] = PyInt(0)

\* C28 witness: the call on the empty record has returned, with an overall
\* score other than 0.
C28_Witness ==
    /\ Returned
    /\ market_data = EmptyRecord
    /\ result.overall_score # PyInt(0)

\* The bucket a label names.
BucketOf(l) ==
    CASE l = "Very Bullish" -> "very_bullish"
      [] l = "Bullish"      -> "bullish"
      [] l = "Neutral"      -> "neutral"
      [] l = "Bearish"      -> "bearish"
      [] l = "Very Bearish" -> "very_bearish"

\* C29: the bar of the gauge drawn for a score has the colour of the
\* bucket whose label _get_sentiment_label returned for that score, and a
\* score equal to a threshold is coloured as the bucket it opens.
C29_GaugeMatchesLabel ==
    fig # Pending =>
        /\ fig.gauge_color = COLORS[BucketOf(fig.title)]
        /\ fig.title = LabelOf(fig.value)
        /\ fig.value = PyInt(60) => fig.gauge_color = "#27ae60"
        /\ fig.value = PyInt(30) => fig.gauge_color = "#2ecc71"
        /\ fig.value = PyInt(-30) => fig.gauge_color = "#f1c40f"
        /\ fig.value = PyInt(-60) => fig.gauge_color = "#e67e22"
        /\ RLt(fig.value, PyInt(-60)) => fig.gauge_color = "#e74c3c"

\* C29 witness: the gauge drawn for the score 60, exactly the very bullish
\* threshold: dark green, titled Very Bullish.
C29_Witness ==
    /\ fig # Pending
    /\ fig.value = PyInt(60)
    /\ fig.title = "Very Bullish"
    /\ fig.gauge_color = "#27ae60"

=============================================================================
